---- MODULE Spec2Model ----
(***************************************************************************)
(* Response-orchestration core of Zentrafuge v8: the emotion analyzer,     *)
(* the interaction-signal recorder with resonance scoring, the adaptive    *)
(* strategy selector and the response orchestrator, as state machine over  *)
(* the Firestore 'interaction_signals' collection.                         *)
(*                                                                         *)
(* Numbers: intensities and confidences are in tenths (0.7 is 7);          *)
(* resonance scores are in units of 1/RScale, exact for whole seconds and  *)
(* shifts in tenths.  Text is a sequence of one-character strings.         *)
(***************************************************************************)
EXTENDS Integers, Sequences, FiniteSets, TLC

VARIABLES
    client,            \* orchestrator.py: module-level OpenAI client is set
    db,                \* the Firestore handle passed as firestore_client
    learning_engine,   \* orchestrator.py: lazily created engine ("None"/"engine")
    learning_enabled,  \* RealtimeLearningEngine.learning_enabled
    pending_signals,   \* RealtimeLearningEngine.pending_signals
    signals,           \* collection 'interaction_signals': id -> document
    clock,             \* reading of datetime.now()
    issued,            \* history: how often each signal id was returned by a start
    messages,          \* collection users/<user_id>/messages: user -> documents
    nops,              \* number of operations performed
    last,              \* the last operation, its arguments and its result
    calls              \* the two capture calls in flight on one signal

vars == <<client, db, learning_engine, learning_enabled, pending_signals,
          signals, clock, issued, messages, nops, last, calls>>

-----------------------------------------------------------------------------
(* Bounds *)

MaxOps == 3
MaxTurns == 2
MaxClock == 1
MaxWords == 2
MaxStored == 3
MaxCalls == 1
MaxSignals == 3

Users == {"u1"}

-----------------------------------------------------------------------------
(* Python None and optional values: None is <<>>, a value v is <<v>> *)

None == <<>>
Some(v) == <<v>>
Val(o) == o[1]

\* dict.get(key, default)
Get(d, key, default) == IF key \in DOMAIN d THEN d[key] ELSE default

\* variant: a feedback label or a score that is already set is kept
Merge_keep_existing(d, upd) ==
    [k \in (DOMAIN d) \cup (DOMAIN upd) |->
        IF k \notin DOMAIN upd THEN d[k]
        ELSE IF k \in DOMAIN d /\ k \in {"user_feedback", "resonance_score"}
                /\ d[k] # <<>>
        THEN d[k] ELSE upd[k]]

\* dict.update / Firestore field merge
Merge(d, upd) ==
    [k \in (DOMAIN d) \cup (DOMAIN upd) |-> IF k \in DOMAIN upd THEN upd[k] ELSE d[k]]

\* truth value of an optional dictionary: None and {} are false
DictTruthy(o) == o # None /\ DOMAIN Val(o) # {}

Min(a, b) == IF a <= b THEN a ELSE b
Max(a, b) == IF a >= b THEN a ELSE b

-----------------------------------------------------------------------------
(* Text *)

IntensifierWords ==
    << <<"e", "x", "t", "r", "e", "m", "e", "l", "y">>,
       <<"i", "n", "c", "r", "e", "d", "i", "b", "l", "y">>,
       <<"t", "o", "t", "a", "l", "l", "y">>,
       <<"c", "o", "m", "p", "l", "e", "t", "e", "l", "y">>,
       <<"a", "b", "s", "o", "l", "u", "t", "e", "l", "y">>,
       <<"r", "e", "a", "l", "l", "y", " ", "r", "e", "a", "l", "l", "y">> >>

SwearWords ==
    << <<"d", "a", "m", "n">>,
       <<"s", "h", "i", "t">>,
       <<"f", "u", "c", "k">>,
       <<"h", "e", "l", "l">> >>

DepthShallow ==
    << <<"o", "k">>,
       <<"f", "i", "n", "e">>,
       <<"g", "o", "o", "d">>,
       <<"t", "h", "a", "n", "k", "s">>,
       <<"y", "e", "s">>,
       <<"n", "o">> >>

DepthMedium ==
    << <<"f", "e", "e", "l">>,
       <<"t", "h", "i", "n", "k">>,
       <<"m", "a", "y", "b", "e">>,
       <<"s", "o", "m", "e", "t", "i", "m", "e", "s">>,
       <<"u", "s", "u", "a", "l", "l", "y">> >>

DepthDeep ==
    << <<"r", "e", "a", "l", "i", "z", "e">>,
       <<"u", "n", "d", "e", "r", "s", "t", "a", "n", "d">>,
       <<"r", "e", "m", "e", "m", "b", "e", "r">>,
       <<"a", "f", "r", "a", "i", "d">>,
       <<"h", "o", "p", "e">> >>

DepthVeryDeep ==
    << <<"v", "u", "l", "n", "e", "r", "a", "b", "l", "e">>,
       <<"s", "c", "a", "r", "e", "d">>,
       <<"a", "s", "h", "a", "m", "e", "d">>,
       <<"g", "r", "a", "t", "e", "f", "u", "l">>,
       <<"h", "e", "a", "l", "i", "n", "g">> >>

DepthProfound ==
    << <<"t", "r", "a", "n", "s", "f", "o", "r", "m">>,
       <<"b", "r", "e", "a", "k", "t", "h", "r", "o", "u", "g", "h">>,
       <<"f", "o", "r", "g", "i", "v", "e">>,
       <<"a", "c", "c", "e", "p", "t">>,
       <<"l", "o", "v", "e">> >>

T_totally == <<"t", "o", "t", "a", "l", "l", "y", " ">>
T_totally_damn == <<"t", "o", "t", "a", "l", "l", "y", " ", "d", "a", "m", "n">>
T_bang3 == <<"!", "!", "!">>
T_bang == <<"!">>
T_caps == <<"S", "O">>
T_hi == <<"h", "i", " ">>
T_tired == <<"t", "i", "r", "e", "d", " ">>
T_angry == <<"a", "n", "g", "r", "y", " ">>
R_realize == <<"I", " ", "r", "e", "a", "l", "i", "z", "e">>
R_love == <<"l", "o", "v", "e">>
M_work == <<"I", " ", "f", "e", "e", "l", " ", "r", "e", "a", "l", "l", "y", " ", "a", "n", "x", "i", "o", "u", "s", " ", "a", "b", "o", "u", "t", " ", "w", "o", "r", "k", " ", "t", "o", "d", "a", "y">>
M_boss == <<"m", "y", " ", "b", "o", "s", "s", " ", "i", "s", " ", "a", "n", "g", "r", "y">>
M_boss_again == <<"m", "y", " ", "B", "o", "s", "s", " ", "c", "a", "l", "l", "e", "d", " ", "a", "g", "a", "i", "n">>
GeneratedReplyText == <<"g", "e", "n", "e", "r", "a", "t", "e", "d", " ", "r", "e", "p", "l", "y">>
M_hi == <<"h", "i">>
UpperChars == <<"A", "B", "C", "D", "E", "F", "G", "H", "I", "J", "K", "L", "M", "N", "O", "P", "Q", "R", "S", "T", "U", "V", "W", "X", "Y", "Z">>
LowerChars == <<"a", "b", "c", "d", "e", "f", "g", "h", "i", "j", "k", "l", "m", "n", "o", "p", "q", "r", "s", "t", "u", "v", "w", "x", "y", "z">>

Range(s) == {s[i] : i \in 1..Len(s)}

\* str.lower() on one character
UpperToLower ==
    [c \in {UpperChars[i] : i \in 1..Len(UpperChars)} |->
        LowerChars[CHOOSE i \in 1..Len(UpperChars) : UpperChars[i] = c]]

CharLower(c) == IF c \in DOMAIN UpperToLower THEN UpperToLower[c] ELSE c

Lower(text) == [i \in 1..Len(text) |-> CharLower(text[i])]

\* sub in text
Contains(text, sub) ==
    \E i \in 0..(Len(text) - Len(sub)) :
        \A j \in 1..Len(sub) : text[i + j] = sub[j]

AnyIn(words, text) == \E k \in 1..Len(words) : Contains(text, words[k])

\* text.count(c)
CountChar(text, c) == Cardinality({i \in 1..Len(text) : text[i] = c})

\* re.findall(r'[A-Z]{2,}', text) is non-empty
HasCapsRun(text) ==
    \E i \in 1..(Len(text) - 1) :
        text[i] \in DOMAIN UpperToLower /\ text[i + 1] \in DOMAIN UpperToLower

\* re.findall(r'(.)\1{2,}', text) is non-empty
HasRepetition(text) ==
    \E i \in 1..(Len(text) - 2) :
        text[i] # "\n" /\ text[i + 1] = text[i] /\ text[i + 2] = text[i]

RECURSIVE Flatten(_)
Flatten(ws) == IF ws = <<>> THEN <<>> ELSE Head(ws) \o Flatten(Tail(ws))

SeqsUpTo(S, n) == UNION {[1..k -> S] : k \in 0..n}

\* the messages handed to the analyzer
Vocabulary ==
    {T_totally, T_totally_damn, T_bang3, T_bang, T_caps, T_hi}
\* messages with hits in the tone categories 'weary' and 'frustrated'
ToneTexts == {T_tired, T_angry, T_angry \o T_tired}
Texts == {Flatten(ws) : ws \in SeqsUpTo(Vocabulary, MaxWords)} \cup ToneTexts

-----------------------------------------------------------------------------
(* emotion_parser.py *)

\* TONE_INDICATORS, in dictionary order
ToneNames ==
    <<"distressed", "weary", "anxious", "frustrated", "sad", "reflective", "hopeful", "grateful", "calm", "curious">>

ToneIndicators ==
    << << <<"o", "v", "e", "r", "w", "h", "e", "l", "m", "e", "d">>,
          <<"b", "r", "e", "a", "k", "i", "n", "g">>,
          <<"c", "a", "n", "'", "t", " ", "h", "a", "n", "d", "l", "e">>,
          <<"f", "a", "l", "l", "i", "n", "g", " ", "a", "p", "a", "r", "t">>,
          <<"d", "r", "o", "w", "n", "i", "n", "g">> >>,
       << <<"t", "i", "r", "e", "d">>,
          <<"e", "x", "h", "a", "u", "s", "t", "e", "d">>,
          <<"d", "r", "a", "i", "n", "e", "d">>,
          <<"b", "u", "r", "n", "t", " ", "o", "u", "t">>,
          <<"e", "m", "p", "t", "y">>,
          <<"h", "e", "a", "v", "y">> >>,
       << <<"w", "o", "r", "r", "i", "e", "d">>,
          <<"s", "c", "a", "r", "e", "d">>,
          <<"n", "e", "r", "v", "o", "u", "s">>,
          <<"p", "a", "n", "i", "c", "k", "i", "n", "g">>,
          <<"a", "f", "r", "a", "i", "d">>,
          <<"s", "t", "r", "e", "s", "s", "e", "d">> >>,
       << <<"a", "n", "g", "r", "y">>,
          <<"i", "r", "r", "i", "t", "a", "t", "e", "d">>,
          <<"f", "e", "d", " ", "u", "p">>,
          <<"a", "n", "n", "o", "y", "e", "d">>,
          <<"s", "t", "u", "c", "k">>,
          <<"b", "l", "o", "c", "k", "e", "d">> >>,
       << <<"d", "e", "p", "r", "e", "s", "s", "e", "d">>,
          <<"d", "o", "w", "n">>,
          <<"b", "l", "u", "e">>,
          <<"h", "o", "p", "e", "l", "e", "s", "s">>,
          <<"l", "o", "n", "e", "l", "y">>,
          <<"i", "s", "o", "l", "a", "t", "e", "d">> >>,
       << <<"t", "h", "i", "n", "k", "i", "n", "g">>,
          <<"w", "o", "n", "d", "e", "r", "i", "n", "g">>,
          <<"p", "r", "o", "c", "e", "s", "s", "i", "n", "g">>,
          <<"c", "o", "n", "t", "e", "m", "p", "l", "a", "t", "i", "n", "g">>,
          <<"c", "o", "n", "s", "i", "d", "e", "r", "i", "n", "g">> >>,
       << <<"b", "e", "t", "t", "e", "r">>,
          <<"i", "m", "p", "r", "o", "v", "i", "n", "g">>,
          <<"o", "p", "t", "i", "m", "i", "s", "t", "i", "c">>,
          <<"l", "o", "o", "k", "i", "n", "g", " ", "f", "o", "r", "w", "a", "r", "d">>,
          <<"e", "x", "c", "i", "t", "e", "d">> >>,
       << <<"t", "h", "a", "n", "k", "f", "u", "l">>,
          <<"a", "p", "p", "r", "e", "c", "i", "a", "t", "i", "v", "e">>,
          <<"b", "l", "e", "s", "s", "e", "d">>,
          <<"f", "o", "r", "t", "u", "n", "a", "t", "e">>,
          <<"g", "r", "a", "t", "e", "f", "u", "l">> >>,
       << <<"p", "e", "a", "c", "e", "f", "u", "l">>,
          <<"c", "e", "n", "t", "e", "r", "e", "d">>,
          <<"g", "r", "o", "u", "n", "d", "e", "d">>,
          <<"s", "t", "a", "b", "l", "e">>,
          <<"b", "a", "l", "a", "n", "c", "e", "d">>,
          <<"s", "e", "r", "e", "n", "e">> >>,
       << <<"i", "n", "t", "e", "r", "e", "s", "t", "e", "d">>,
          <<"e", "x", "p", "l", "o", "r", "i", "n", "g">>,
          <<"l", "e", "a", "r", "n", "i", "n", "g">>,
          <<"d", "i", "s", "c", "o", "v", "e", "r", "i", "n", "g">>,
          <<"q", "u", "e", "s", "t", "i", "o", "n", "i", "n", "g">> >> >>

\* number of indicators of tone k found in text
ToneScore(text, k) ==
    Cardinality({j \in 1..Len(ToneIndicators[k]) : Contains(text, ToneIndicators[k][j])})

\* max(tone_scores, key=tone_scores.get): the first tone with the highest score
detect_primary_tone(text) ==
    LET tone_scores == [k \in 1..Len(ToneNames) |-> ToneScore(text, k)]
        best == CHOOSE k \in 1..Len(ToneNames) :
                    /\ \A j \in 1..Len(ToneNames) : tone_scores[j] <= tone_scores[k]
                    /\ \A j \in 1..(k - 1) : tone_scores[j] < tone_scores[k]
    IN  IF tone_scores[best] = 0 THEN "neutral" ELSE ToneNames[best]

\* variant: every "!" adds a tenth, without the cap at 0.2
exclamation_boost_uncapped(text) ==
    LET exclamation == CountChar(text, "!")
    IN  IF exclamation > 0 THEN exclamation * 1 ELSE 0

\* the boost of the "!" characters, in tenths: min(0.2, count * 0.1)
exclamation_boost(text) ==
    LET exclamation == CountChar(text, "!")
    IN  IF exclamation > 0 THEN Min(2, exclamation * 1) ELSE 0

\* the base intensity plus the boosts of the markers found, in tenths
intensity_markers(text) ==
    3 + (IF AnyIn(IntensifierWords, text) THEN 3 ELSE 0)
      + (IF HasCapsRun(text) THEN 2 ELSE 0)
      + exclamation_boost(text)
      + (IF HasRepetition(text) THEN 1 ELSE 0)
      + (IF AnyIn(SwearWords, text) THEN 2 ELSE 0)

\* variant: the sum of the boosts is returned without the cap at 1.0
calculate_emotional_intensity_no_cap(text) ==
    intensity_markers(text)

\* intensity in tenths
calculate_emotional_intensity(text) ==
    Min(10, intensity_markers(text))

analyze_emotional_signature(text) ==
    LET text_lower == Lower(text)
    IN  [primary_tone |-> detect_primary_tone(text_lower),
         intensity |-> calculate_emotional_intensity(text_lower)]

\* the context string "Primary tone: <tone> | Intensity: <x>/1.0 | ...", as
\* the sequence of its "label: value" parts
format_emotional_context(signature) ==
    << <<"Primary tone", signature.primary_tone>>,
       <<"Intensity", signature.intensity>> >>

\* parse_emotional_tone catches its own errors, so it always returns a context
parse_emotional_tone(user_input) ==
    format_emotional_context(analyze_emotional_signature(user_input))

\* emotional_context.split(':')[0] if ':' in emotional_context else 'neutral'
SplitColonHead(emotional_context) ==
    IF Len(emotional_context) > 0 THEN emotional_context[1][1] ELSE "neutral"

-----------------------------------------------------------------------------
(* learning_data_structures.py *)

\* one resonance unit is 1/RScale: 300 seconds x tenths x tenths x tenths
RScale == 300 * 100

FeedbackLabels == {"perfect", "helpful", "not_quite", "unhelpful"}

\* feedback_multiplier in tenths
feedback_multiplier(user_feedback) ==
    IF user_feedback = Some("perfect") THEN 12
    ELSE IF user_feedback = Some("helpful") THEN 11
    ELSE IF user_feedback = Some("not_quite") THEN 7
    ELSE IF user_feedback = Some("unhelpful") THEN 3
    ELSE 10

\* 300 - None, None / 5.0 raise TypeError
resonance_raises(time_to_reply, followup_depth) ==
    time_to_reply = None \/ followup_depth = None

\* timing_score * 300: min(1.0, max(0.2, (300 - time_to_reply) / 300))
timing_score(time_to_reply) == Min(300, Max(60, 300 - time_to_reply))

\* depth_score * 5: followup_depth / 5.0
depth_score(followup_depth) == followup_depth

\* time_to_reply in seconds, emotional_shift in tenths, followup_depth 1..5;
\* the arguments are optional values as read from a document
calculate_resonance_score(time_to_reply, emotional_shift, followup_depth, user_feedback) ==
    LET \* timing_score * 300
        timing == timing_score(Val(time_to_reply))
        \* emotion_score * 20
        emotion == Max(0, Min(20, emotional_shift + 10))
        \* depth_score * 5
        depth == depth_score(Val(followup_depth))
        resonance == (timing * 3 + emotion * 60 + depth * 180)
                        * feedback_multiplier(user_feedback)
    IN  Min(RScale, Max(0, resonance))

\* InteractionSignal built by the factory; now is the reading of datetime.now()
create_interaction_signal(user_id, user_message, cael_response, emotional_analysis_before, memory_used, response_style, now) ==
    [user_id |-> user_id,
     message_id |-> <<user_id, now>>,
     timestamp |-> now,
     user_message |-> user_message,
     emotional_tone_before |-> Get(emotional_analysis_before, "primary_emotion", "neutral"),
     intensity_before |-> Get(emotional_analysis_before, "intensity", 5),
     cael_response |-> cael_response,
     memory_recalled |-> memory_used,
     memory_type |-> None,
     response_style |-> response_style,
     time_to_reply |-> None,
     emotional_tone_after |-> None,
     intensity_after |-> None,
     followup_depth |-> None,
     resonance_score |-> None,
     user_feedback |-> None]

analyze_user_segment(user_id, interaction_history) ==
    IF interaction_history = <<>> THEN "new_user"
    ELSE LET themes == {interaction_history[i].emotional_tone_before :
                            i \in 1..Len(interaction_history)}
         IN  IF "overwhelmed" \in themes /\ "exhausted" \in themes THEN "burnout_pattern"
             ELSE IF "anxious" \in themes /\ "scattered" \in themes THEN "anxiety_pattern"
             ELSE IF "sad" \in themes /\ "lonely" \in themes THEN "depression_pattern"
             ELSE IF "frustrated" \in themes /\ "stuck" \in themes THEN "transition_pattern"
             ELSE "general_support"

-----------------------------------------------------------------------------
(* Firestore documents of the collection 'interaction_signals' *)

\* firestore.SERVER_TIMESTAMP: the store fills in its own time
ServerTimestamp == "SERVER_TIMESTAMP"

Exists(coll, id) == id \in DOMAIN coll

\* document(id).set(data)
DocSet(coll, id, data) ==
    [k \in (DOMAIN coll) \cup {id} |-> IF k = id THEN data ELSE coll[k]]

\* variant: an update of a missing document is accepted
UpdateRaises_ignoring_missing(coll, id, ok) == ~ok

\* document(id).update(fields) raises when the store fails (ok is false) and,
\* NotFound, when the document does not exist
UpdateRaises(coll, id, ok) == ~ok \/ ~Exists(coll, id)

\* document(id).update(fields) on an existing document
DocUpdate(coll, id, fields) ==
    [k \in DOMAIN coll |-> IF k = id THEN Merge(coll[k], fields) ELSE coll[k]]

-----------------------------------------------------------------------------
(* realtime_learning_engine.py *)

\* the methods the class RealtimeLearningEngine defines
EngineMethods ==
    {"__init__", "capture_interaction_start", "complete_interaction",
     "capture_user_reply", "capture_explicit_feedback", "get_adaptive_strategy",
     "generate_weekly_report", "_analyze_message_depth",
     "_calculate_emotional_shift", "_trigger_realtime_adaptation",
     "_get_recent_signals", "_get_user_preferences", "_calculate_adaptive_strategy"}

\* result: the id returned, the collection and the pending queue afterwards;
\* setOk is whether the store accepts the write
capture_interaction_start(coll, pending, enabled, user_id, user_message, emotional_analysis, memory_context, now, setOk) ==
    LET signal == create_interaction_signal(user_id, user_message, <<>>,
                      emotional_analysis,
                      Get(memory_context, "memory_recalled", FALSE), "adaptive", now)
        signal_id == signal.message_id
    IN  IF enabled
        THEN IF setOk
             THEN [ret |-> signal_id, signals |-> DocSet(coll, signal_id, signal),
                   pending |-> pending]
             ELSE [ret |-> signal_id, signals |-> coll,
                   pending |-> Append(pending, signal)]
        ELSE [ret |-> signal_id, signals |-> coll, pending |-> pending]

complete_interaction(coll, enabled, signal_id, cael_response, response_style, memory_type, updOk) ==
    IF ~enabled THEN [ret |-> FALSE, signals |-> coll]
    ELSE IF ~UpdateRaises(coll, signal_id, updOk)
    THEN [ret |-> TRUE,
          signals |-> DocUpdate(coll, signal_id,
                        [cael_response |-> cael_response,
                         response_style |-> response_style,
                         memory_type |-> memory_type,
                         response_timestamp |-> ServerTimestamp])]
    ELSE [ret |-> FALSE, signals |-> coll]

\* depth of a reply, 1..5
_analyze_message_depth(message) ==
    IF message = <<>> THEN 1
    ELSE LET message_lower == Lower(message)
             d1 == 1
             d2 == IF AnyIn(DepthMedium, message_lower) THEN Max(d1, 2) ELSE d1
             d3 == IF AnyIn(DepthDeep, message_lower) THEN Max(d2, 3) ELSE d2
             d4 == IF AnyIn(DepthVeryDeep, message_lower) THEN Max(d3, 4) ELSE d3
             d5 == IF AnyIn(DepthProfound, message_lower) THEN 5 ELSE d4
         IN  IF Len(message) > 200 THEN Min(5, d5 + 1) ELSE d5

positive_emotions == {"joy", "peace", "gratitude", "hope", "love", "calm"}
negative_emotions == {"anxiety", "sadness", "anger", "fear", "shame", "overwhelmed"}

\* shift in tenths; getOk is whether the store answers the read
_calculate_emotional_shift(coll, signal_id, emotional_analysis_after, getOk) ==
    IF ~getOk THEN 0
    ELSE IF ~Exists(coll, signal_id) THEN 0
    ELSE LET intensity_before == Get(coll[signal_id], "intensity_before", 5)
             intensity_after == Get(emotional_analysis_after, "intensity", 5)
             emotion_after == Get(emotional_analysis_after, "primary_emotion", "neutral")
         IN  IF emotion_after \in positive_emotions
             THEN intensity_after - intensity_before
             ELSE IF emotion_after \in negative_emotions
             THEN intensity_before - intensity_after
             ELSE 0

\* "reinforce" / "flag" / "none": what _trigger_realtime_adaptation is asked to do
adaptation_trigger(resonance_score) ==
    IF resonance_score * 10 > 9 * RScale THEN "reinforce"
    ELSE IF resonance_score * 10 < 3 * RScale THEN "flag"
    ELSE "none"

capture_user_reply(coll, enabled, signal_id, reply_message, emotional_analysis_after, time_since_response, getOk, updOk) ==
    IF ~enabled THEN [ret |-> None, signals |-> coll, trigger |-> "none"]
    ELSE LET followup_depth == _analyze_message_depth(reply_message)
             emotional_shift == _calculate_emotional_shift(coll, signal_id,
                                    emotional_analysis_after, getOk)
             resonance_score == calculate_resonance_score(Some(time_since_response),
                                    emotional_shift, Some(followup_depth), None)
         IN  IF ~UpdateRaises(coll, signal_id, updOk)
             THEN [ret |-> Some(resonance_score),
                   signals |-> DocUpdate(coll, signal_id,
                        [time_to_reply |-> Some(time_since_response),
                         emotional_tone_after |->
                             IF "primary_emotion" \in DOMAIN emotional_analysis_after
                             THEN Some(emotional_analysis_after.primary_emotion) ELSE None,
                         intensity_after |->
                             IF "intensity" \in DOMAIN emotional_analysis_after
                             THEN Some(emotional_analysis_after.intensity) ELSE None,
                         followup_depth |-> Some(followup_depth),
                         resonance_score |-> Some(resonance_score),
                         reply_timestamp |-> ServerTimestamp]),
                   trigger |-> adaptation_trigger(resonance_score)]
             ELSE [ret |-> None, signals |-> coll, trigger |-> "none"]

\* variant: the stored score (or 0.5) is multiplied by the label's multiplier
capture_explicit_feedback_scaling_stored(coll, enabled, signal_id, feedback_type, feedback_details, failAt) ==
    IF ~enabled THEN [ret |-> FALSE, signals |-> coll]
    ELSE IF UpdateRaises(coll, signal_id, failAt # 1)
    THEN [ret |-> FALSE, signals |-> coll]
    ELSE LET update_data ==
                 IF feedback_details # None
                 THEN [user_feedback |-> Some(feedback_type),
                       feedback_timestamp |-> ServerTimestamp,
                       feedback_details |-> feedback_details]
                 ELSE [user_feedback |-> Some(feedback_type),
                       feedback_timestamp |-> ServerTimestamp]
             coll1 == DocUpdate(coll, signal_id, update_data)
             signal_doc_exists == Exists(coll1, signal_id)
             signal_data == coll1[signal_id]
             time_to_reply == Get(signal_data, "time_to_reply", Some(60))
             emotional_shift == Get(signal_data, "emotional_shift", 0)
             followup_depth == Get(signal_data, "followup_depth", Some(3))
         IN  IF failAt = 2 THEN [ret |-> FALSE, signals |-> coll1]
             ELSE IF ~signal_doc_exists
             THEN IF feedback_type \in {"perfect", "unhelpful"}
                     /\ "_update_user_preferences" \notin EngineMethods
                  THEN [ret |-> FALSE, signals |-> coll1]
                  ELSE [ret |-> TRUE, signals |-> coll1]
             ELSE IF resonance_raises(time_to_reply, followup_depth)
             THEN [ret |-> FALSE, signals |-> coll1]
             ELSE IF UpdateRaises(coll1, signal_id, failAt # 3)
             THEN [ret |-> FALSE, signals |-> coll1]
             ELSE LET stored == Get(signal_data, "resonance_score", None)
                      new_resonance ==
                          Min(RScale, Max(0,
                              ((IF stored = None THEN RScale \div 2 ELSE Val(stored))
                                  * feedback_multiplier(Some(feedback_type))) \div 10))
                      coll2 == DocUpdate(coll1, signal_id,
                                   [resonance_score |-> Some(new_resonance)])
                  IN  IF feedback_type \in {"perfect", "unhelpful"}
                         /\ "_update_user_preferences" \notin EngineMethods
                      THEN [ret |-> FALSE, signals |-> coll2]
                      ELSE [ret |-> TRUE, signals |-> coll2]

\* failAt: 0 no store failure, 1 the label update fails, 2 the read fails,
\* 3 the resonance update fails
capture_explicit_feedback(coll, enabled, signal_id, feedback_type, feedback_details, failAt) ==
    IF ~enabled THEN [ret |-> FALSE, signals |-> coll]
    ELSE IF UpdateRaises(coll, signal_id, failAt # 1)
    THEN [ret |-> FALSE, signals |-> coll]
    ELSE LET update_data ==
                 IF feedback_details # None
                 THEN [user_feedback |-> Some(feedback_type),
                       feedback_timestamp |-> ServerTimestamp,
                       feedback_details |-> feedback_details]
                 ELSE [user_feedback |-> Some(feedback_type),
                       feedback_timestamp |-> ServerTimestamp]
             coll1 == DocUpdate(coll, signal_id, update_data)
             signal_doc_exists == Exists(coll1, signal_id)
             signal_data == coll1[signal_id]
             time_to_reply == Get(signal_data, "time_to_reply", Some(60))
             emotional_shift == Get(signal_data, "emotional_shift", 0)
             followup_depth == Get(signal_data, "followup_depth", Some(3))
         IN  IF failAt = 2 THEN [ret |-> FALSE, signals |-> coll1]
             ELSE IF ~signal_doc_exists
             THEN IF feedback_type \in {"perfect", "unhelpful"}
                     /\ "_update_user_preferences" \notin EngineMethods
                  THEN [ret |-> FALSE, signals |-> coll1]
                  ELSE [ret |-> TRUE, signals |-> coll1]
             ELSE IF resonance_raises(time_to_reply, followup_depth)
             THEN [ret |-> FALSE, signals |-> coll1]
             ELSE IF UpdateRaises(coll1, signal_id, failAt # 3)
             THEN [ret |-> FALSE, signals |-> coll1]
             ELSE LET new_resonance == calculate_resonance_score(time_to_reply,
                                           emotional_shift, followup_depth,
                                           Some(feedback_type))
                      coll2 == DocUpdate(coll1, signal_id,
                                   [resonance_score |-> Some(new_resonance)])
                  IN  IF feedback_type \in {"perfect", "unhelpful"}
                         /\ "_update_user_preferences" \notin EngineMethods
                      THEN [ret |-> FALSE, signals |-> coll2]
                      ELSE [ret |-> TRUE, signals |-> coll2]

_get_recent_signals(coll, user_id) == <<>>

_get_user_preferences(user_id) == <<>>

\* variant: a signal without a score counts as 0
resonance_or_zero(s) ==
    IF s.resonance_score = None THEN 0 ELSE Val(s.resonance_score)

\* s.resonance_score or 0.5
resonance_or_default(s) ==
    IF s.resonance_score = None \/ s.resonance_score = Some(0)
    THEN RScale \div 2 ELSE Val(s.resonance_score)

RECURSIVE SumResonance(_)
SumResonance(ss) ==
    IF ss = <<>> THEN 0 ELSE resonance_or_default(Head(ss)) + SumResonance(Tail(ss))

RECURSIVE ApplyPreferences(_, _)
ApplyPreferences(strategy, preferences) ==
    IF preferences = <<>> THEN strategy
    ELSE LET pref == Head(preferences)
             next == IF pref.preference_type = "tone" /\ pref.confidence > 8
                     THEN [strategy EXCEPT !.response_style = pref.preference_value,
                                           !.confidence = Min(10, strategy.confidence + 1)]
                     ELSE strategy
         IN  ApplyPreferences(next, Tail(preferences))

_calculate_adaptive_strategy(recent_signals, preferences, patterns, context) ==
    LET default == [approach |-> "gentle_grounding",
                    memory_use |-> "moderate",
                    response_style |-> "warm_validation",
                    message_length |-> "medium",
                    confidence |-> 7]
        n == Len(recent_signals)
        total == SumResonance(recent_signals)
        adapted ==
            IF n > 0 /\ total * 10 > 8 * n * RScale
            THEN [default EXCEPT !.confidence = 9]
            ELSE IF n > 0 /\ total * 10 < 4 * n * RScale
            THEN [default EXCEPT !.approach = "gentle_exploration", !.confidence = 6]
            ELSE default
    IN  ApplyPreferences(adapted, preferences)

\* the dictionary returned when learning is disabled or the body raises
DisabledStrategy == [strategy |-> "default", confidence |-> 5]

get_adaptive_strategy(coll, enabled, user_id, current_context) ==
    IF ~enabled THEN DisabledStrategy
    ELSE LET recent_signals == _get_recent_signals(coll, user_id)
             preferences == _get_user_preferences(user_id)
             user_segment == analyze_user_segment(user_id, recent_signals)
         IN  IF "_get_resonance_patterns" \notin EngineMethods
             THEN DisabledStrategy
             ELSE _calculate_adaptive_strategy(recent_signals, preferences, <<>>,
                                               current_context)

-----------------------------------------------------------------------------
(* memory_engine.py: the collection users/<user_id>/messages.  A user's    *)
(* documents are kept in the order the query order_by("timestamp",         *)
(* DESCENDING) yields them; timestamps are clock readings, one unit a day. *)

\* the parameters of retrieve_relevant_memories
RetrieveParameters == {"user_id", "current_input", "firestore_client", "limit"}

\* limit of retrieve_relevant_memories and of find_relevant_memories
RetrieveLimit == 3
\* limit passed to get_user_memories
FetchLimit == 10

MemoryOffline == "Memory system offline - responding in present moment"
MemoryError == "Memory retrieval error - responding authentically to current moment"
NoRelevantMemories == "No relevant memories found - this feels like a fresh conversation."
RelevantMemories == "Relevant memories: ..."

theme_keywords ==
    << [theme |-> "work_stress",
          keywords |-> << <<"j", "o", "b">>,
                        <<"w", "o", "r", "k">>,
                        <<"b", "o", "s", "s">>,
                        <<"c", "a", "r", "e", "e", "r">>,
                        <<"w", "o", "r", "k", "p", "l", "a", "c", "e">>,
                        <<"c", "o", "l", "l", "e", "a", "g", "u", "e", "s">> >>],
       [theme |-> "relationships",
          keywords |-> << <<"r", "e", "l", "a", "t", "i", "o", "n", "s", "h", "i", "p">>,
                        <<"p", "a", "r", "t", "n", "e", "r">>,
                        <<"f", "r", "i", "e", "n", "d">>,
                        <<"f", "a", "m", "i", "l", "y">>,
                        <<"d", "a", "t", "i", "n", "g">>,
                        <<"l", "o", "v", "e">> >>],
       [theme |-> "anxiety",
          keywords |-> << <<"a", "n", "x", "i", "o", "u", "s">>,
                        <<"w", "o", "r", "r", "y">>,
                        <<"s", "c", "a", "r", "e", "d">>,
                        <<"n", "e", "r", "v", "o", "u", "s">>,
                        <<"p", "a", "n", "i", "c">>,
                        <<"s", "t", "r", "e", "s", "s">> >>],
       [theme |-> "depression",
          keywords |-> << <<"s", "a", "d">>,
                        <<"d", "e", "p", "r", "e", "s", "s", "e", "d">>,
                        <<"h", "o", "p", "e", "l", "e", "s", "s">>,
                        <<"e", "m", "p", "t", "y">>,
                        <<"l", "o", "n", "e", "l", "y">>,
                        <<"d", "o", "w", "n">> >>],
       [theme |-> "growth",
          keywords |-> << <<"l", "e", "a", "r", "n", "i", "n", "g">>,
                        <<"g", "r", "o", "w", "i", "n", "g">>,
                        <<"c", "h", "a", "n", "g", "i", "n", "g">>,
                        <<"i", "m", "p", "r", "o", "v", "i", "n", "g">>,
                        <<"p", "r", "o", "g", "r", "e", "s", "s">>,
                        <<"d", "e", "v", "e", "l", "o", "p", "m", "e", "n", "t">> >>],
       [theme |-> "health",
          keywords |-> << <<"t", "i", "r", "e", "d">>,
                        <<"s", "l", "e", "e", "p">>,
                        <<"e", "n", "e", "r", "g", "y">>,
                        <<"e", "x", "e", "r", "c", "i", "s", "e">>,
                        <<"h", "e", "a", "l", "t", "h">>,
                        <<"p", "h", "y", "s", "i", "c", "a", "l">> >>],
       [theme |-> "creativity",
          keywords |-> << <<"c", "r", "e", "a", "t", "i", "v", "e">>,
                        <<"a", "r", "t">>,
                        <<"w", "r", "i", "t", "i", "n", "g">>,
                        <<"m", "u", "s", "i", "c">>,
                        <<"p", "r", "o", "j", "e", "c", "t">>,
                        <<"i", "n", "s", "p", "i", "r", "a", "t", "i", "o", "n">> >>],
       [theme |-> "identity",
          keywords |-> << <<"w", "h", "o", " ", "a", "m", " ", "I">>,
                        <<"p", "u", "r", "p", "o", "s", "e">>,
                        <<"m", "e", "a", "n", "i", "n", "g">>,
                        <<"v", "a", "l", "u", "e", "s">>,
                        <<"i", "d", "e", "n", "t", "i", "t", "y">>,
                        <<"s", "e", "l", "f">> >>] >>

emotional_keywords ==
    << [emotion |-> "sad",
          keywords |-> << <<"s", "a", "d">>,
                        <<"d", "e", "p", "r", "e", "s", "s", "e", "d">>,
                        <<"d", "o", "w", "n">>,
                        <<"b", "l", "u", "e">>,
                        <<"c", "r", "y", "i", "n", "g">> >>],
       [emotion |-> "anxious",
          keywords |-> << <<"a", "n", "x", "i", "o", "u", "s">>,
                        <<"w", "o", "r", "r", "i", "e", "d">>,
                        <<"s", "c", "a", "r", "e", "d">>,
                        <<"n", "e", "r", "v", "o", "u", "s">>,
                        <<"p", "a", "n", "i", "c">> >>],
       [emotion |-> "angry",
          keywords |-> << <<"a", "n", "g", "r", "y">>,
                        <<"m", "a", "d">>,
                        <<"f", "r", "u", "s", "t", "r", "a", "t", "e", "d">>,
                        <<"i", "r", "r", "i", "t", "a", "t", "e", "d">>,
                        <<"f", "u", "r", "i", "o", "u", "s">> >>],
       [emotion |-> "happy",
          keywords |-> << <<"h", "a", "p", "p", "y">>,
                        <<"j", "o", "y", "f", "u", "l">>,
                        <<"e", "x", "c", "i", "t", "e", "d">>,
                        <<"g", "l", "a", "d">>,
                        <<"c", "h", "e", "e", "r", "f", "u", "l">> >>],
       [emotion |-> "tired",
          keywords |-> << <<"t", "i", "r", "e", "d">>,
                        <<"e", "x", "h", "a", "u", "s", "t", "e", "d">>,
                        <<"d", "r", "a", "i", "n", "e", "d">>,
                        <<"w", "e", "a", "r", "y">>,
                        <<"b", "u", "r", "n", "o", "u", "t">> >>] >>

\* str.split(): the maximal runs of non-blank characters
Words(text) ==
    {SubSeq(text, i, j) : <<i, j>> \in
        {p \in (1..Len(text)) \X (1..Len(text)) :
            /\ p[1] <= p[2]
            /\ \A k \in p[1]..p[2] : text[k] # " "
            /\ (p[1] = 1 \/ text[p[1] - 1] = " ")
            /\ (p[2] = Len(text) \/ text[p[2] + 1] = " ")}}

\* the first three themes, in the order of theme_keywords
extract_conversation_themes(user_message, cael_reply) ==
    LET text == Lower(user_message \o <<" ">> \o cael_reply)
        hit == [i \in 1..Len(theme_keywords) |-> AnyIn(theme_keywords[i].keywords, text)]
        Hit(i) == hit[i]
        detected_themes == SelectSeq([i \in 1..Len(theme_keywords) |-> i], Hit)
    IN  [i \in 1..Min(3, Len(detected_themes)) |-> theme_keywords[detected_themes[i]].theme]

extract_themes_from_text(text) == extract_conversation_themes(text, <<>>)

\* the first emotion, in the order of emotional_keywords, or ""
extract_emotional_keywords(text) ==
    LET text_lower == Lower(text)
        hits == {i \in 1..Len(emotional_keywords) :
                    AnyIn(emotional_keywords[i].keywords, text_lower)}
    IN  IF hits = {} THEN ""
        ELSE emotional_keywords[CHOOSE i \in hits : \A j \in hits : i <= j].emotion

\* the messages stored by store_conversation and by chat(), and those
\* retrieval is asked about
MemoryMessages == {M_hi, M_boss, M_work}
RetrieveMessages == {M_boss_again, M_work}
KnownTexts == MemoryMessages \cup RetrieveMessages
LowerTexts == {Lower(t) : t \in KnownTexts}

\* Words, extract_themes_from_text, extract_emotional_keywords and
\* extract_conversation_themes over the messages, evaluated once
WordsOf == [t \in LowerTexts |-> Words(t)]
InputThemes == [t \in LowerTexts |-> extract_themes_from_text(t)]
EmotionOf == [t \in KnownTexts \cup LowerTexts |-> extract_emotional_keywords(t)]
ConversationThemes == [t \in KnownTexts |-> extract_conversation_themes(t, GeneratedReplyText)]

\* (now - timestamp).days
calculate_days_since_timestamp(timestamp, now) == now - timestamp

\* md5 of the message and the time, as the pair it is computed from
generate_message_id(message, now) == <<message, now>>

\* label of the time since the newest document; lastOk: the store answers
calculate_time_since_last(docs, now, lastOk) ==
    IF ~lastOk THEN "unknown"
    ELSE IF docs = <<>> THEN "first_conversation"
    ELSE IF now - docs[1].timestamp >= 1 THEN "days_ago"
    ELSE "within_a_day"

\* the fields of ConversationMemory, and those without a default
ConversationMemoryFields ==
    {"message_id", "timestamp", "user_message", "cael_reply", "emotional_tone",
     "time_since_last", "mood_score", "themes"}
ConversationMemoryRequired ==
    {"message_id", "timestamp", "user_message", "cael_reply", "emotional_tone",
     "time_since_last"}

\* ConversationMemory(**data) raises TypeError
ConstructRaises(data) ==
    \/ ~(DOMAIN data \subseteq ConversationMemoryFields)
    \/ ~(ConversationMemoryRequired \subseteq DOMAIN data)

\* the positions a new document can take among those of the same timestamp:
\* the query orders equal timestamps by document id
InsertPositions(docs, now) ==
    1..(Cardinality({i \in 1..Len(docs) : docs[i].timestamp = now}) + 1)

InsertAt(docs, pos, doc) ==
    SubSeq(docs, 1, pos - 1) \o <<doc>> \o SubSeq(docs, pos, Len(docs))

\* the user's documents after store_conversation; the reply stored is
\* GeneratedReplyText
store_conversation(docs, user_message, cael_reply, firestore_client, emotional_tone, now, pos, lastOk, setOk) ==
    IF ~firestore_client THEN docs
    ELSE LET time_since_last == calculate_time_since_last(docs, now, lastOk)
             message_id == generate_message_id(user_message, now)
             memory == [message_id |-> message_id,
                        timestamp |-> now,
                        user_message |-> user_message,
                        cael_reply |-> cael_reply,
                        emotional_tone |-> emotional_tone,
                        time_since_last |-> time_since_last,
                        mood_score |-> None,
                        themes |-> ConversationThemes[user_message]]
             same == {i \in 1..Len(docs) :
                         "message_id" \in DOMAIN docs[i] /\ docs[i].message_id = message_id}
         IN  IF ~setOk THEN docs
             ELSE IF same # {}
             THEN [i \in 1..Len(docs) |-> IF i \in same THEN memory ELSE docs[i]]
             ELSE InsertAt(docs, pos, memory)

\* the memories of the newest documents; readOk: the store answers the query
get_user_memories(docs, limit, readOk) ==
    LET fetched == SubSeq(docs, 1, Min(limit, Len(docs)))
    IN  IF ~readOk THEN <<>>
        ELSE IF \E i \in 1..Len(fetched) : ConstructRaises(fetched[i]) THEN <<>>
        ELSE fetched

\* score in tenths; current_input is already lower case
calculate_relevance_score(memory, current_input, now) ==
    LET user_words == WordsOf[Lower(memory.user_message)]
        current_words == WordsOf[current_input]
        keyword_overlap == Cardinality(user_words \cap current_words)
        input_themes == InputThemes[current_input]
        theme_overlap == Cardinality(Range(memory.themes) \cap Range(input_themes))
        days_ago == calculate_days_since_timestamp(memory.timestamp, now)
        current_emotion == EmotionOf[current_input]
        memory_emotion == EmotionOf[memory.user_message]
    IN  keyword_overlap * 3
          + theme_overlap * 5
          + (IF days_ago <= 1 THEN 3 ELSE IF days_ago <= 7 THEN 1 ELSE 0)
          + (IF current_emotion # "" /\ memory_emotion # "" /\ current_emotion = memory_emotion
             THEN 4 ELSE 0)

\* variant: an entry is placed before the entries of equal score
InsertByScore_before_equal(sorted, x) ==
    LET before == {i \in 1..Len(sorted) : sorted[i].score > x.score}
    IN  InsertAt(sorted, Cardinality(before) + 1, x)

\* list.sort(key=score, reverse=True) is stable: an entry is placed after
\* the entries of greater or equal score
InsertByScore(sorted, x) ==
    LET before == {i \in 1..Len(sorted) : sorted[i].score >= x.score}
    IN  InsertAt(sorted, Cardinality(before) + 1, x)

RECURSIVE SortByScore(_)
SortByScore(scored) ==
    IF scored = <<>> THEN <<>>
    ELSE InsertByScore(SortByScore(SubSeq(scored, 1, Len(scored) - 1)), scored[Len(scored)])

\* variant: the memories of score 0 are kept
find_relevant_memories_keeping_zero(memories, current_input, limit, now) ==
    LET current_input_lower == Lower(current_input)
        all == [i \in 1..Len(memories) |->
                   [memory |-> memories[i],
                    score |-> calculate_relevance_score(memories[i],
                                  current_input_lower, now)]]
        scored_memories == SortByScore(all)
    IN  SubSeq(scored_memories, 1, Min(limit, Len(scored_memories)))

\* the memories of positive score, best first, with their scores
find_relevant_memories(memories, current_input, limit, now) ==
    LET current_input_lower == Lower(current_input)
        all == [i \in 1..Len(memories) |->
                   [memory |-> memories[i],
                    score |-> calculate_relevance_score(memories[i],
                                  current_input_lower, now)]]
        Positive(e) == e.score > 0
        scored_memories == SortByScore(SelectSeq(all, Positive))
    IN  SubSeq(scored_memories, 1, Min(limit, Len(scored_memories)))

\* the recall text: which of the two forms it has
format_memory_recall(memories) ==
    IF memories = <<>> THEN NoRelevantMemories ELSE RelevantMemories

\* recall: the text returned; memories: the scored memories it is built from
retrieve_relevant_memories(docs, current_input, firestore_client, limit, now, readOk) ==
    IF ~firestore_client
    THEN [recall |-> MemoryOffline, memories |-> <<>>]
    ELSE LET memories == get_user_memories(docs, FetchLimit, readOk)
             relevant_memories == find_relevant_memories(memories, current_input, limit, now)
         IN  [recall |-> format_memory_recall(relevant_memories),
              memories |-> relevant_memories]

-----------------------------------------------------------------------------
(* orchestrator.py *)

MemoryInitializing == "Memory system initializing - responding in present moment"
MemoryUnavailable == "Memory temporarily unavailable - responding in present moment"
\* the literal memory_recall is compared with
MemoryUnavailableSentinel == "Memory temporarily unavailable"

EmotionUnavailable == << <<"Emotional analysis unavailable">> >>

ConfigIssueResponse == "I'm experiencing a configuration issue. Please check back in a moment while we resolve this."
ApologyResponse == "I'm here with you, but something went wrong on my side. You're not alone - let's try again in a moment."
ListeningResponse == "I'm here and listening. What would you like to share?"
FallbackUnavailableResponse == "I'm experiencing some technical difficulties, but I'm here with you. Please try again in a moment."
FallbackFailedResponse == "I'm experiencing some technical difficulties, but I'm here with you. Your message matters, and I want to respond properly. Could you try again in a moment?"
\* text produced by the generative service
GeneratedReply == "generated reply"
GeneratedFallbackReply == "generated fallback reply"

get_learning_engine(eng, firestore_client, engineInitOk) ==
    IF eng = "None" /\ firestore_client
    THEN IF engineInitOk THEN "engine" ELSE "None"
    ELSE eng

\* the keywords orchestrate_response passes to retrieve_relevant_memories
OrchestratorRetrieveKeywords == {"user_id", "current_message", "firestore_client"}

\* lines 157-170: the recall text the orchestrator ends up with; retrieved is
\* what retrieve_relevant_memories returns when it is called with its own
\* parameters
OrchestratorMemoryRecall(firestore_client, memImportOk, retrieved) ==
    IF ~memImportOk THEN MemoryInitializing
    ELSE IF ~(OrchestratorRetrieveKeywords \subseteq RetrieveParameters)
    THEN MemoryUnavailable      \* TypeError: unexpected keyword argument
    ELSE retrieved

\* bool(memory_recall and memory_recall != "Memory temporarily unavailable")
MemoryUsedFlag(memory_recall) ==
    memory_recall # "" /\ memory_recall # MemoryUnavailableSentinel

approach_styles ==
    [gentle_grounding |-> "Respond with gentle, grounding presence.",
     curious_exploration |-> "Respond with warm curiosity.",
     warm_validation |-> "Lead with validation and warmth.",
     pattern_reflection |-> "Help them see patterns in their experience.",
     present_moment |-> "Focus entirely on the present moment.",
     memory_integration |-> "Skillfully weave their past experiences."]

build_poa_prompt(user_input, memory_recall, emotional_context, ai_name) ==
    [template |-> "standard",
     ai_name |-> ai_name,
     user_input |-> user_input,
     memory_context |-> IF memory_recall # "" THEN memory_recall
                        ELSE "No relevant memories found - respond authentically in the present moment.",
     emotional_context |-> IF emotional_context # <<>> THEN emotional_context
                           ELSE << <<"Emotional tone", "neutral/unknown">> >>]

build_adaptive_poa_prompt(user_input, memory_recall, emotional_context, ai_name, strategy) ==
    IF ~DictTruthy(strategy)
    THEN build_poa_prompt(user_input, memory_recall, emotional_context, ai_name)
    ELSE LET s == Val(strategy)
             approach == Get(s, "approach", "gentle_grounding")
             confidence == Get(s, "confidence", 7)
         IN  [template |-> "adaptive",
              ai_name |-> ai_name,
              style_instruction |-> IF approach \in DOMAIN approach_styles
                                    THEN Some(approach_styles[approach]) ELSE None,
              confidence_note |-> IF confidence > 9 THEN "High confidence"
                                  ELSE IF confidence > 7 THEN "Good confidence"
                                  ELSE IF confidence > 5 THEN "Moderate confidence"
                                  ELSE "Lower confidence",
              response_style |-> Get(s, "response_style", "warm_validation"),
              memory_use |-> Get(s, "memory_use", "moderate"),
              message_length |-> Get(s, "message_length", "medium"),
              user_input |-> user_input,
              memory_context |-> IF memory_recall # "" THEN memory_recall
                                 ELSE "No relevant memories - respond authentically in the present moment.",
              emotional_context |-> IF emotional_context # <<>> THEN emotional_context
                                    ELSE << <<"Emotional tone", "neutral/unknown">> >>]

\* the call at lines 159-163 reaches the body of retrieve_relevant_memories
RetrievalReached(memImportOk) ==
    memImportOk /\ OrchestratorRetrieveKeywords \subseteq RetrieveParameters

\* the outcomes of the environment during one turn; readOk, whether the store
\* answers the memory query, is drawn only when the retrieval is reached
Environments ==
    {e \in [memImportOk : BOOLEAN, emoImportOk : BOOLEAN, engineInitOk : BOOLEAN,
            setOk : BOOLEAN, updOk : BOOLEAN, genOk : BOOLEAN,
            readOk : BOOLEAN] :
        ~RetrievalReached(e.memImportOk) => e.readOk}

\* the outcomes that can make a difference to a turn: an outcome of a step
\* the turn does not reach is fixed to success
TurnEnvironments(eng, hasClient, firestore_client) ==
    {e \in Environments :
        /\ ~(eng = "None" /\ firestore_client) => e.engineInitOk
        /\ get_learning_engine(eng, firestore_client, e.engineInitOk) = "None"
              => (e.setOk /\ e.updOk)
        /\ (~hasClient \/ ~e.genOk) => e.updOk
        /\ ~hasClient => e.genOk}

\* variant: the signal is completed whenever it was started, whatever became
\* of the generative call
CompletesSignal_whenever_started(hasEngine, signal_id, hasClient, genOk) ==
    hasEngine /\ signal_id # None

\* lines 246-263 are reached only when the generative call of line 238 has
\* returned; complete_interaction is called if learning_eng and signal_id
CompletesSignal(hasEngine, signal_id, hasClient, genOk) ==
    hasClient /\ genOk /\ hasEngine /\ signal_id # None

\* result: the value returned, whether an exception left the function, the
\* generative calls made, the steps taken, and the state afterwards
\* parsed is the value parse_emotional_tone(user_input) returns at line 176;
\* retrieved is the text retrieve_relevant_memories returns for the user's
\* documents when the call of lines 159-163 reaches it
orchestrate_response(coll, pending, retrieved, eng, enabled, hasClient, firestore_client, user_id, user_input, parsed, ai_name, now, env) ==
    LET learning_eng == get_learning_engine(eng, firestore_client, env.engineInitOk)
        memory_recall == OrchestratorMemoryRecall(firestore_client, env.memImportOk,
                             retrieved)
        emotional_context == IF env.emoImportOk THEN parsed
                             ELSE EmotionUnavailable
        emotional_analysis ==
            IF env.emoImportOk
            THEN [primary_emotion |-> SplitColonHead(emotional_context),
                  intensity |-> 5,
                  context |-> emotional_context]
            ELSE [primary_emotion |-> "neutral", intensity |-> 5]
        memory_flag == MemoryUsedFlag(memory_recall)
        started == capture_interaction_start(coll, pending, enabled, user_id, user_input,
                       emotional_analysis, [memory_recalled |-> memory_flag], now, env.setOk)
        signal_id == IF learning_eng # "None" THEN Some(started.ret) ELSE None
        coll1 == IF learning_eng # "None" THEN started.signals ELSE coll
        pending1 == IF learning_eng # "None" THEN started.pending ELSE pending
        strategy == IF learning_eng # "None"
                    THEN Some(get_adaptive_strategy(coll1, enabled, user_id,
                                  [emotional_state |-> emotional_analysis.primary_emotion,
                                   memory_available |-> memory_flag,
                                   interaction_context |-> "chat"]))
                    ELSE None
        early == <<"get_engine", "retrieve", "analyze">>
                   \o (IF learning_eng # "None" THEN <<"start", "select">> ELSE <<>>)
        prompt == IF DictTruthy(strategy)
                  THEN build_adaptive_poa_prompt(user_input, memory_recall,
                           emotional_context, ai_name, strategy)
                  ELSE build_poa_prompt(user_input, memory_recall, emotional_context, ai_name)
        response_style == IF DictTruthy(strategy)
                          THEN Get(Val(strategy), "response_style", "adaptive")
                          ELSE "standard"
        completed == complete_interaction(coll1, enabled, Val(signal_id), GeneratedReply,
                         response_style, None, env.updOk)
        doComplete == CompletesSignal(learning_eng # "None", signal_id, hasClient, env.genOk)
        after == <<"complete">>
    IN  IF ~hasClient
        THEN \* line 225: a bare string
             [ret |-> [type |-> "str", value |-> ConfigIssueResponse],
              raised |-> FALSE, genCalls |-> 0,
              steps |-> early \o (IF doComplete THEN after ELSE <<>>) \o <<"return">>,
              prompt |-> None, memory_recall |-> memory_recall,
              engine |-> learning_eng,
              signals |-> IF doComplete THEN completed.signals ELSE coll1,
              pending |-> pending1]
        ELSE IF ~env.genOk
        THEN \* the call raises; line 294 catches it
             [ret |-> [type |-> "dict",
                       value |-> [response |-> ApologyResponse,
                                  signal_id |-> None,
                                  strategy_used |-> Some("fallback"),
                                  confidence |-> 5,
                                  memory_used |-> FALSE,
                                  learning_enabled |-> FALSE]],
              raised |-> FALSE, genCalls |-> 1,
              steps |-> early \o <<"prompt", "generate", "except">>
                          \o (IF doComplete THEN after ELSE <<>>) \o <<"return">>,
              prompt |-> Some(prompt), memory_recall |-> memory_recall,
              engine |-> learning_eng,
              signals |-> IF doComplete THEN completed.signals ELSE coll1,
              pending |-> pending1]
        ELSE [ret |-> [type |-> "dict",
                       value |-> [response |-> GeneratedReply,
                                  signal_id |-> signal_id,
                                  strategy_used |->
                                      IF DictTruthy(strategy)
                                      THEN IF "approach" \in DOMAIN Val(strategy)
                                           THEN Some(Val(strategy).approach) ELSE None
                                      ELSE Some("standard"),
                                  confidence |->
                                      IF DictTruthy(strategy)
                                      THEN Val(strategy).confidence ELSE 7,
                                  memory_used |-> memory_flag,
                                  learning_enabled |-> learning_eng # "None"]],
              raised |-> FALSE, genCalls |-> 1,
              steps |-> early \o <<"prompt", "generate">>
                          \o (IF doComplete THEN after ELSE <<>>)
                          \o <<"meta", "return">>,
              prompt |-> Some(prompt), memory_recall |-> memory_recall,
              engine |-> learning_eng,
              signals |-> IF doComplete THEN completed.signals ELSE coll1,
              pending |-> pending1]

\* result: the text returned and the generative calls made
simple_response_fallback(user_input, ai_name, hasClient, genOk) ==
    IF user_input = <<>> \/ \A i \in 1..Len(user_input) : user_input[i] = " "
    THEN [ret |-> ListeningResponse, genCalls |-> 0]
    ELSE IF ~hasClient
    THEN [ret |-> FallbackUnavailableResponse, genCalls |-> 0]
    ELSE IF genOk
    THEN [ret |-> GeneratedFallbackReply, genCalls |-> 1]
    ELSE [ret |-> FallbackFailedResponse, genCalls |-> 1]

-----------------------------------------------------------------------------
(* orchestrator.py: get_debug_prompt *)

DebugMemoryNotAvailable == "Memory system not available"
\* f"Memory error: {str(e)}" for the TypeError of the call at lines 388-392
DebugMemoryError == "Memory error: retrieve_relevant_memories() got an unexpected keyword argument 'current_message'"
DebugEmotionNotAvailable == << <<"Emotion parser not available">> >>

\* the keywords get_debug_prompt passes to retrieve_relevant_memories
DebugRetrieveKeywords == {"user_id", "current_message", "firestore_client"}

\* lines 386-397: the recall text get_debug_prompt ends up with
DebugMemoryRecall(memImportOk, retrieved) ==
    IF ~memImportOk THEN DebugMemoryNotAvailable
    ELSE IF ~(DebugRetrieveKeywords \subseteq RetrieveParameters)
    THEN DebugMemoryError       \* TypeError: unexpected keyword argument
    ELSE retrieved

\* bool(memory_recall and "not available" not in memory_recall)
DebugMemoryAvailable(memory_recall) ==
    memory_recall # "" /\ memory_recall # DebugMemoryNotAvailable

\* the number of calls of client.chat.completions.create among the steps
GenerativeCalls(steps) == Cardinality({i \in 1..Len(steps) : steps[i] = "generate"})

\* variant: the prompt is also submitted to the generative service
DebugSteps_with_generate(hasEngine) ==
    <<"retrieve", "analyze", "get_engine">>
       \o (IF hasEngine THEN <<"select">> ELSE <<>>)
       \o <<"prompt", "generate", "return">>

\* the steps of get_debug_prompt, in the order of its statements
DebugSteps(hasEngine) ==
    <<"retrieve", "analyze", "get_engine">>
       \o (IF hasEngine THEN <<"select">> ELSE <<>>)
       \o <<"prompt", "return">>

\* result: the text returned (its header line and the prompt after it), the
\* steps taken, the generative calls made and the engine afterwards;
\* retrieved is the text retrieve_relevant_memories returns for the user's
\* documents when the call of lines 388-392 reaches it
get_debug_prompt(coll, retrieved, eng, enabled, firestore_client, user_input, user_id, parsed, ai_name, now, env) ==
    LET memory_recall == DebugMemoryRecall(env.memImportOk, retrieved)
        emotional_context == IF env.emoImportOk THEN parsed
                             ELSE DebugEmotionNotAvailable
        learning_eng == get_learning_engine(eng, firestore_client, env.engineInitOk)
        strategy == IF learning_eng # "None"
                    THEN Some(get_adaptive_strategy(coll, enabled, user_id,
                                  [emotional_state |->
                                       IF env.emoImportOk
                                       THEN SplitColonHead(emotional_context)
                                       ELSE "neutral",
                                   memory_available |-> DebugMemoryAvailable(memory_recall)]))
                    ELSE None
        steps == DebugSteps(learning_eng # "None")
    IN  [ret |-> IF DictTruthy(strategy)
                 THEN [header |-> "=== ADAPTIVE PROMPT ===",
                       approach |-> Get(Val(strategy), "approach", "unknown"),
                       prompt |-> build_adaptive_poa_prompt(user_input, memory_recall,
                                      emotional_context, ai_name, strategy)]
                 ELSE [header |-> "=== STANDARD PROMPT ===",
                       prompt |-> build_poa_prompt(user_input, memory_recall,
                                      emotional_context, ai_name)],
         steps |-> steps,
         genCalls |-> GenerativeCalls(steps),
         engine |-> learning_eng]

-----------------------------------------------------------------------------
(* app.py: the record chat() keeps of a turn *)

mood_words ==
    << [mood |-> "positive",
          keywords |-> << <<"h", "a", "p", "p", "y">>,
                        <<"g", "r", "e", "a", "t">>,
                        <<"a", "m", "a", "z", "i", "n", "g">>,
                        <<"w", "o", "n", "d", "e", "r", "f", "u", "l">>,
                        <<"e", "x", "c", "i", "t", "e", "d">>,
                        <<"g", "o", "o", "d">>,
                        <<"b", "e", "t", "t", "e", "r">>,
                        <<"a", "w", "e", "s", "o", "m", "e">> >>],
       [mood |-> "melancholy",
          keywords |-> << <<"s", "a", "d">>,
                        <<"d", "o", "w", "n">>,
                        <<"d", "e", "p", "r", "e", "s", "s", "e", "d">>,
                        <<"l", "o", "n", "e", "l", "y">>,
                        <<"e", "m", "p", "t", "y">>,
                        <<"l", "o", "s", "t">>,
                        <<"h", "u", "r", "t">> >>],
       [mood |-> "frustrated",
          keywords |-> << <<"a", "n", "g", "r", "y">>,
                        <<"f", "r", "u", "s", "t", "r", "a", "t", "e", "d">>,
                        <<"a", "n", "n", "o", "y", "e", "d">>,
                        <<"p", "i", "s", "s", "e", "d">>,
                        <<"m", "a", "d">>,
                        <<"i", "r", "r", "i", "t", "a", "t", "e", "d">> >>],
       [mood |-> "anxious",
          keywords |-> << <<"a", "n", "x", "i", "o", "u", "s">>,
                        <<"w", "o", "r", "r", "i", "e", "d">>,
                        <<"s", "c", "a", "r", "e", "d">>,
                        <<"n", "e", "r", "v", "o", "u", "s">>,
                        <<"a", "f", "r", "a", "i", "d">>,
                        <<"p", "a", "n", "i", "c">> >>],
       [mood |-> "weary",
          keywords |-> << <<"t", "i", "r", "e", "d">>,
                        <<"e", "x", "h", "a", "u", "s", "t", "e", "d">>,
                        <<"o", "v", "e", "r", "w", "h", "e", "l", "m", "e", "d">>,
                        <<"b", "u", "r", "n", "o", "u", "t">>,
                        <<"d", "r", "a", "i", "n", "e", "d">> >>] >>

detect_simple_mood(message) ==
    IF message = <<>> THEN "unknown"
    ELSE LET message_lower == Lower(message)
             hits == {i \in 1..Len(mood_words) : AnyIn(mood_words[i].keywords, message_lower)}
         IN  IF hits = {} THEN "reflective"
             ELSE mood_words[CHOOSE i \in hits : \A j \in hits : i <= j].mood

\* crypto_handler defines neither encrypt_message nor encrypt: the plain
\* text fallback of app.py lines 27-28 is the one in use
encrypt_message(text) == text

\* the user's documents after store_conversation_record; addOk: the store
\* accepts the write
store_conversation_record(docs, user_message, ai_response, method, ai_name, hasDb, now, pos, addOk) ==
    IF ~hasDb \/ ~addOk THEN docs
    ELSE InsertAt(docs, pos,
             [user_message |-> encrypt_message(user_message),
              ai_reply |-> encrypt_message(ai_response),
              ai_name |-> ai_name,
              timestamp |-> now,
              mood |-> detect_simple_mood(user_message),
              method |-> method,
              encrypted |-> TRUE,
              app_version |-> "v8_poa_dynamic"])

-----------------------------------------------------------------------------
(* Inputs *)

\* an id no start returns
NeverIssued == <<"nobody", 0>>

\* the ids the capture operations are called with: the stored ones, the
\* queued ones and one that was never issued
TargetIds(coll, pending) ==
    (DOMAIN coll) \cup {pending[i].message_id : i \in 1..Len(pending)} \cup {NeverIssued}

\* arguments of a direct start: emotional_analysis and the memory flag
StartArgs ==
    {[ea |-> <<>>, mem |-> FALSE],
     [ea |-> [primary_emotion |-> "anxiety", intensity |-> 0], mem |-> TRUE]}
\* arguments of capture_user_reply: elapsed seconds, reply text, analysis
ReplyArgs ==
    {[t |-> 0, reply |-> R_love, ea |-> [primary_emotion |-> "joy", intensity |-> 10]],
     [t |-> 0, reply |-> R_realize, ea |-> <<>>],
     [t |-> 120, reply |-> R_realize, ea |-> [primary_emotion |-> "joy", intensity |-> 10]],
     [t |-> 300, reply |-> R_realize, ea |-> <<>>],
     [t |-> 600, reply |-> <<>>, ea |-> [primary_emotion |-> "anxiety", intensity |-> 10]]}
FeedbackDetails == {None, Some("details")}
ChatMessages == {M_boss}

\* parse_emotional_tone over the chat messages, evaluated once
ParsedContext == [m \in ChatMessages |-> parse_emotional_tone(m)]

\* the arguments of a direct call: a missing user id is "", an empty
\* message is <<>>
CallUserIds == Users \cup {""}
CallMessages == ChatMessages \cup {<<>>}
CallParsedContext == [m \in CallMessages |-> parse_emotional_tone(m)]

\* the outcomes get_debug_prompt depends on; the others are fixed
DebugEnvironments(eng, firestore_client) ==
    {e \in Environments :
        /\ ~(eng = "None" /\ firestore_client) => e.engineInitOk
        /\ e.setOk /\ e.updOk /\ e.genOk}

\* analyze_emotional_signature over the analyzer's messages, evaluated once
Signatures == [t \in Texts |-> analyze_emotional_signature(t)]

\* resonance scores of recent signals: none, and scores calculate_resonance_score
\* returns (1.0, 0.8, 0.56, 0.036)
RecentScores ==
    {None,
     Some(calculate_resonance_score(Some(0), 10, Some(5), None)),
     Some(calculate_resonance_score(Some(0), 0, Some(5), None)),
     Some(calculate_resonance_score(Some(120), 0, Some(3), None)),
     Some(calculate_resonance_score(Some(600), -10, Some(1), Some("unhelpful")))}

\* the recent signals handed to the selector, by their resonance_score
RecentSignals == {[resonance_score |-> r] : r \in RecentScores}

\* lists of UserPreference: a tone preference above the confidence 0.8, one
\* at 0.8, a preference of another type
PreferenceLists ==
    LET tone_sure == [preference_type |-> "tone", preference_value |-> "playful",
                      confidence |-> 9]
        tone_unsure == [preference_type |-> "tone", preference_value |-> "formal",
                        confidence |-> 8]
        length_sure == [preference_type |-> "response_length",
                        preference_value |-> "short", confidence |-> 10]
    IN  {<<>>, <<tone_sure>>, <<tone_unsure>>, <<length_sure>>,
         <<tone_sure, tone_sure>>}

\* the replies captured while a feedback call is in flight
ConcurrentReplyArgs == {a \in ReplyArgs : a.t \in {120, 600}}

\* no capture call is in flight
NoCalls == [begun |-> FALSE]

\* one more occurrence of id in the bag
BagAdd(bag, id) ==
    [k \in (DOMAIN bag) \cup {id} |->
        (IF k \in DOMAIN bag THEN bag[k] ELSE 0) + (IF k = id THEN 1 ELSE 0)]

DocOf(coll, id) == IF Exists(coll, id) THEN Some(coll[id]) ELSE None

-----------------------------------------------------------------------------
(* State machine *)

Init ==
    /\ client \in BOOLEAN
    /\ db \in BOOLEAN
    /\ learning_engine = "None"
    /\ learning_enabled = db
    /\ pending_signals = <<>>
    /\ signals = <<>>
    /\ clock = 0
    /\ issued = <<>>
    /\ messages = [u \in Users |-> <<>>]
    /\ nops = 0
    /\ last = [op |-> "init"]
    /\ calls = NoCalls

\* datetime.now() advances
Tick ==
    /\ clock < MaxClock
    /\ clock' = clock + 1
    /\ UNCHANGED <<calls, client, db, learning_engine, learning_enabled, pending_signals,
                   signals, issued, messages, nops, last>>

\* datetime.now() advances by more than a week (clock counts days)
TickWeek ==
    /\ clock <= MaxClock
    /\ clock' = clock + 8
    /\ UNCHANGED <<calls, client, db, learning_engine, learning_enabled,
                   pending_signals, signals, issued, messages, nops, last>>

\* emotion_parser.analyze_emotional_signature; the analyzer keeps no state,
\* so it is run on the fresh system only
Analyze ==
    /\ nops = 0
    /\ \E text \in Texts :
         last' = [op |-> "analyze", text |-> text, signature |-> Signatures[text]]
    /\ nops' = nops + 1
    /\ UNCHANGED <<calls, client, db, learning_engine, learning_enabled, pending_signals,
                   signals, clock, issued, messages>>

\* RealtimeLearningEngine.capture_interaction_start
Start ==
    /\ nops < MaxOps
    /\ \E user_id \in Users, a \in StartArgs, setOk \in BOOLEAN :
         LET r == capture_interaction_start(signals, pending_signals, learning_enabled,
                      user_id, M_hi, a.ea, [memory_recalled |-> a.mem], clock, setOk)
         IN  /\ signals' = r.signals
             /\ pending_signals' = r.pending
             /\ issued' = BagAdd(issued, r.ret)
             /\ last' = [op |-> "start", ret |-> r.ret, setOk |-> setOk]
    /\ nops' = nops + 1
    /\ UNCHANGED <<calls, client, db, learning_engine, learning_enabled, clock, messages>>

\* RealtimeLearningEngine.capture_user_reply
CaptureReply ==
    /\ nops < MaxOps
    /\ \E signal_id \in TargetIds(signals, pending_signals), a \in ReplyArgs,
          getOk \in BOOLEAN, updOk \in BOOLEAN :
         LET r == capture_user_reply(signals, learning_enabled, signal_id, a.reply, a.ea,
                      a.t, getOk, updOk)
         IN  /\ signals' = r.signals
             /\ last' = [op |-> "capture_reply", signal_id |-> signal_id,
                         reply |-> a.reply, t |-> a.t,
                         storeOk |-> getOk /\ updOk,
                         ret |-> r.ret, pre |-> DocOf(signals, signal_id)]
    /\ nops' = nops + 1
    /\ UNCHANGED <<calls, client, db, learning_engine, learning_enabled, pending_signals,
                   clock, issued, messages>>

\* RealtimeLearningEngine.capture_explicit_feedback
CaptureFeedback ==
    /\ nops < MaxOps
    /\ \E signal_id \in TargetIds(signals, pending_signals), label \in FeedbackLabels,
          details \in FeedbackDetails, failAt \in 0..3 :
         LET r == capture_explicit_feedback(signals, learning_enabled, signal_id,
                      label, details, failAt)
         IN  /\ signals' = r.signals
             /\ last' = [op |-> "capture_feedback", signal_id |-> signal_id,
                         label |-> label, details |-> details,
                         storeOk |-> failAt = 0,
                         ret |-> r.ret, pre |-> DocOf(signals, signal_id)]
    /\ nops' = nops + 1
    /\ UNCHANGED <<calls, client, db, learning_engine, learning_enabled, pending_signals,
                   clock, issued, messages>>

\* RealtimeLearningEngine.get_adaptive_strategy
GetStrategy ==
    /\ nops < MaxTurns
    /\ \E user_id \in Users :
         last' = [op |-> "get_adaptive_strategy", user_id |-> user_id,
                  ret |-> get_adaptive_strategy(signals, learning_enabled, user_id,
                              [interaction_context |-> "chat"])]
    /\ nops' = nops + 1
    /\ UNCHANGED <<calls, client, db, learning_engine, learning_enabled, pending_signals,
                   signals, clock, issued, messages>>

\* RealtimeLearningEngine._calculate_adaptive_strategy on a list of recent
\* signals and a list of preferences; the function reads no state, so it is
\* run on the fresh system only
CalculateStrategy ==
    /\ nops = 0
    /\ \E recent_signals \in SeqsUpTo(RecentSignals, MaxSignals),
          preferences \in PreferenceLists :
         last' = [op |-> "calculate_adaptive_strategy",
                  recent_signals |-> recent_signals,
                  preferences |-> preferences,
                  ret |-> _calculate_adaptive_strategy(recent_signals, preferences,
                              <<>>, [interaction_context |-> "chat"])]
    /\ nops' = nops + 1
    /\ UNCHANGED <<calls, client, db, learning_engine, learning_enabled,
                   pending_signals, signals, clock, issued, messages>>

\* the documents of users/<user_id>/messages
DocsOf(user_id) == IF user_id \in DOMAIN messages THEN messages[user_id] ELSE <<>>

\* what retrieve_relevant_memories(user_id, current_input, firestore_client)
\* returns in the present state
Retrieved(user_id, current_input, readOk) ==
    retrieve_relevant_memories(DocsOf(user_id), current_input, db, RetrieveLimit,
        clock, readOk).recall

\* app.py chat(): one turn through orchestrate_response, with the fallback
\* of lines 123-136 when it raises, and the record of the turn of line 155
Chat ==
    /\ nops < MaxTurns
    /\ \E user_id \in Users, message \in ChatMessages,
          env \in TurnEnvironments(learning_engine, client, db) :
         \E r \in {orchestrate_response(signals, pending_signals,
                      Retrieved(user_id, message, env.readOk), learning_engine,
                      learning_enabled, client, db, user_id, message,
                      ParsedContext[message], "Cael", clock, env)} :
         LET primaryFailed == "generate" \in Range(r.steps) /\ ~env.genOk
         IN  \E fallbackGenOk \in (IF r.raised THEN BOOLEAN ELSE {TRUE}),
                addOk \in (IF db THEN BOOLEAN ELSE {TRUE}),
                pos \in InsertPositions(messages[user_id], clock) :
               LET f == simple_response_fallback(message, "Cael", client, fallbackGenOk)
                   ai_response == IF r.raised THEN [type |-> "str", value |-> f.ret]
                                  ELSE r.ret
                   method_used == IF r.raised THEN "fallback" ELSE "poa"
               IN  /\ addOk \/ pos = 1
                   /\ messages' = [messages EXCEPT ![user_id] =
                          store_conversation_record(@, message, ai_response, method_used,
                              "Cael", db, clock, pos, addOk)]
                   /\ signals' = r.signals
                   /\ pending_signals' = r.pending
                   /\ learning_engine' = r.engine
                   /\ issued' = IF "start" \in Range(r.steps)
                                THEN BagAdd(issued, <<user_id, clock>>) ELSE issued
                   /\ last' = [op |-> "chat",
                               user_id |-> user_id,
                               user_message |-> message,
                               ai_response |-> ai_response,
                               method_used |-> method_used,
                               stored |-> db /\ addOk,
                               raised |-> r.raised,
                               primaryFailed |-> primaryFailed,
                               genCalls |-> r.genCalls
                                              + (IF r.raised THEN f.genCalls ELSE 0),
                               steps |-> r.steps,
                               memory_recall |-> r.memory_recall,
                               started |-> IF "start" \in Range(r.steps)
                                           THEN Some(<<user_id, clock>>) ELSE None]
    /\ nops' = nops + 1
    /\ UNCHANGED <<calls, client, db, learning_enabled, clock>>

\* memory_engine.store_conversation
StoreConversation ==
    /\ \E user_id \in Users, message \in MemoryMessages, lastOk \in BOOLEAN,
          setOk \in BOOLEAN :
       \E pos \in InsertPositions(messages[user_id], clock) :
         /\ Len(messages[user_id]) < MaxStored
         /\ (db /\ setOk) \/ pos = 1
         /\ messages' = [messages EXCEPT ![user_id] =
                store_conversation(@, message, GeneratedReplyText, db, "neutral",
                    clock, pos, lastOk, setOk)]
         /\ last' = [op |-> "store_conversation", user_id |-> user_id,
                     user_message |-> message, setOk |-> setOk]
    /\ UNCHANGED <<calls, client, db, learning_engine, learning_enabled, pending_signals,
                   signals, clock, issued, nops>>

\* app.py store_conversation_record, for a turn answered with the
\* configuration notice
StoreConversationRecord ==
    /\ \E user_id \in Users, message \in ChatMessages, addOk \in BOOLEAN :
       \E pos \in InsertPositions(messages[user_id], clock) :
         /\ Len(messages[user_id]) < MaxStored
         /\ (db /\ addOk) \/ pos = 1
         /\ messages' = [messages EXCEPT ![user_id] =
                store_conversation_record(@, message,
                    [type |-> "str", value |-> ConfigIssueResponse], "poa", "Cael",
                    db, clock, pos, addOk)]
         /\ last' = [op |-> "store_conversation_record", user_id |-> user_id,
                     user_message |-> message, stored |-> db /\ addOk]
    /\ UNCHANGED <<calls, client, db, learning_engine, learning_enabled, pending_signals,
                   signals, clock, issued, nops>>

\* memory_engine.retrieve_relevant_memories, called with its own parameters
Retrieve ==
    /\ \E user_id \in Users, current_input \in RetrieveMessages, readOk \in BOOLEAN :
         LET r == retrieve_relevant_memories(messages[user_id], current_input, db,
                      RetrieveLimit, clock, readOk)
         IN  last' = [op |-> "retrieve", user_id |-> user_id,
                      current_input |-> current_input, readOk |-> readOk,
                      now |-> clock, recall |-> r.recall, memories |-> r.memories]
    /\ UNCHANGED <<calls, client, db, learning_engine, learning_enabled, pending_signals,
                   signals, clock, issued, messages, nops>>

\* orchestrate_response called directly, with whatever arguments the caller has
Orchestrate ==
    /\ nops < MaxCalls
    /\ \E user_id \in CallUserIds, user_input \in CallMessages,
          env \in TurnEnvironments(learning_engine, client, db) :
         \E r \in {orchestrate_response(signals, pending_signals,
                      Retrieved(user_id, user_input, env.readOk), learning_engine,
                      learning_enabled, client, db, user_id, user_input,
                      CallParsedContext[user_input], "Cael", clock, env)} :
             /\ signals' = r.signals
             /\ pending_signals' = r.pending
             /\ learning_engine' = r.engine
             /\ issued' = IF "start" \in Range(r.steps)
                          THEN BagAdd(issued, <<user_id, clock>>) ELSE issued
             /\ last' = [op |-> "orchestrate",
                         user_id |-> user_id,
                         user_input |-> user_input,
                         env |-> env,
                         ret |-> r.ret,
                         raised |-> r.raised,
                         genCalls |-> r.genCalls,
                         steps |-> r.steps,
                         prompt |-> r.prompt,
                         started |-> IF "start" \in Range(r.steps)
                                     THEN Some(<<user_id, clock>>) ELSE None]
    /\ nops' = nops + 1
    /\ UNCHANGED <<calls, client, db, learning_enabled, clock, messages>>

\* get_debug_prompt
DebugPrompt ==
    /\ \E user_id \in CallUserIds, user_input \in CallMessages,
          env \in DebugEnvironments(learning_engine, db) :
         \E r \in {get_debug_prompt(signals,
                      Retrieved(user_id, user_input, env.readOk), learning_engine,
                      learning_enabled, db, user_input, user_id,
                      CallParsedContext[user_input], "Cael", clock, env)} :
             /\ learning_engine' = r.engine
             /\ last' = [op |-> "debug_prompt",
                         user_id |-> user_id,
                         user_input |-> user_input,
                         env |-> env,
                         now |-> clock,
                         text |-> r.ret,
                         genCalls |-> r.genCalls,
                         steps |-> r.steps]
    /\ UNCHANGED <<calls, client, db, learning_enabled, pending_signals, signals, clock,
                   issued, messages, nops>>

\* variant: a field stored as None is read as its default
signal_fields_read_defaulting_None(signal_data) ==
    [time_to_reply |->
         IF Get(signal_data, "time_to_reply", None) = None
         THEN Some(60) ELSE signal_data.time_to_reply,
     emotional_shift |-> Get(signal_data, "emotional_shift", 0),
     followup_depth |->
         IF Get(signal_data, "followup_depth", None) = None
         THEN Some(3) ELSE signal_data.followup_depth]

\* the fields capture_explicit_feedback reads from the signal it has just
\* labelled: signal_data.get(key, default)
signal_fields_read(signal_data) ==
    [time_to_reply |-> Get(signal_data, "time_to_reply", Some(60)),
     emotional_shift |-> Get(signal_data, "emotional_shift", 0),
     followup_depth |-> Get(signal_data, "followup_depth", Some(3))]

\* capture_user_reply and capture_explicit_feedback arrive together for one
\* signal id.  Each call is a sequence of store requests; calls.reply and
\* calls.feedback hold the position and the local variables of each call,
\* with the outcome of each of its store requests; calls.pre is the
\* collection when the calls arrive and calls.steps the order of the steps.
BeginCaptures ==
    /\ ~calls.begun
    /\ nops < MaxOps
    /\ \E signal_id \in TargetIds(signals, pending_signals),
          a \in ConcurrentReplyArgs, label \in FeedbackLabels,
          getOk \in BOOLEAN, updOk \in BOOLEAN, failAt \in 0..3 :
         calls' = [begun |-> TRUE, signal_id |-> signal_id, pre |-> signals,
                   steps |-> <<>>,
                   reply |-> [pc |-> "shift", a |-> a, getOk |-> getOk,
                              updOk |-> updOk, emotional_shift |-> 0, ret |-> None],
                   feedback |-> [pc |-> "label", label |-> label,
                                 details |-> None, failAt |-> failAt,
                                 new_resonance |-> 0, ret |-> FALSE]]
    /\ nops' = nops + 1
    /\ UNCHANGED <<client, db, learning_engine, learning_enabled, pending_signals,
                   signals, clock, issued, messages, last>>

\* capture_user_reply, lines 102-117: the depth, the read of the signal in
\* _calculate_emotional_shift
ReplyShift ==
    /\ calls.begun /\ calls.reply.pc = "shift"
    /\ LET c == calls.reply
       IN  calls' = [calls EXCEPT
               !.steps = Append(@, "shift"),
               !.reply = IF ~learning_enabled
                         THEN [c EXCEPT !.pc = "done"]
                         ELSE [c EXCEPT !.pc = "update",
                                 !.emotional_shift = _calculate_emotional_shift(signals,
                                     calls.signal_id, c.a.ea, c.getOk)]]
    /\ UNCHANGED <<client, db, learning_engine, learning_enabled, pending_signals,
                   signals, clock, issued, messages, nops, last>>

\* capture_user_reply, lines 112-140: the score and the update of the signal
ReplyUpdate ==
    /\ calls.begun /\ calls.reply.pc = "update"
    /\ LET c == calls.reply
           followup_depth == _analyze_message_depth(c.a.reply)
           resonance_score == calculate_resonance_score(Some(c.a.t),
                                  c.emotional_shift, Some(followup_depth), None)
       IN  IF ~UpdateRaises(signals, calls.signal_id, c.updOk)
           THEN /\ signals' = DocUpdate(signals, calls.signal_id,
                        [time_to_reply |-> Some(c.a.t),
                         emotional_tone_after |->
                             IF "primary_emotion" \in DOMAIN c.a.ea
                             THEN Some(c.a.ea.primary_emotion) ELSE None,
                         intensity_after |->
                             IF "intensity" \in DOMAIN c.a.ea
                             THEN Some(c.a.ea.intensity) ELSE None,
                         followup_depth |-> Some(followup_depth),
                         resonance_score |-> Some(resonance_score),
                         reply_timestamp |-> ServerTimestamp])
                /\ calls' = [calls EXCEPT !.steps = Append(@, "update"),
                                !.reply = [c EXCEPT !.pc = "done",
                                             !.ret = Some(resonance_score)]]
           ELSE /\ signals' = signals
                /\ calls' = [calls EXCEPT !.steps = Append(@, "update"),
                                !.reply = [c EXCEPT !.pc = "done"]]
    /\ UNCHANGED <<client, db, learning_engine, learning_enabled, pending_signals,
                   clock, issued, messages, nops, last>>

\* capture_explicit_feedback, lines 150-165: the update with the label
FeedbackLabel ==
    /\ calls.begun /\ calls.feedback.pc = "label"
    /\ LET c == calls.feedback
           update_data ==
               IF c.details # None
               THEN [user_feedback |-> Some(c.label),
                     feedback_timestamp |-> ServerTimestamp,
                     feedback_details |-> c.details]
               ELSE [user_feedback |-> Some(c.label),
                     feedback_timestamp |-> ServerTimestamp]
       IN  IF learning_enabled /\ ~UpdateRaises(signals, calls.signal_id, c.failAt # 1)
           THEN /\ signals' = DocUpdate(signals, calls.signal_id, update_data)
                /\ calls' = [calls EXCEPT !.steps = Append(@, "label"),
                                !.feedback = [c EXCEPT !.pc = "read"]]
           ELSE /\ signals' = signals
                /\ calls' = [calls EXCEPT !.steps = Append(@, "label"),
                                !.feedback = [c EXCEPT !.pc = "done"]]
    /\ UNCHANGED <<client, db, learning_engine, learning_enabled, pending_signals,
                   clock, issued, messages, nops, last>>

\* capture_explicit_feedback, lines 168-176: the read of the signal and the
\* score computed from the fields read
FeedbackRead ==
    /\ calls.begun /\ calls.feedback.pc = "read"
    /\ LET c == calls.feedback
           read == signal_fields_read(signals[calls.signal_id])
       IN  calls' = [calls EXCEPT
               !.steps = Append(@, "read"),
               !.feedback =
                   IF c.failAt = 2 THEN [c EXCEPT !.pc = "done"]
                   ELSE IF resonance_raises(read.time_to_reply, read.followup_depth)
                   THEN [c EXCEPT !.pc = "done"]
                   ELSE [c EXCEPT !.pc = "recompute",
                           !.new_resonance = calculate_resonance_score(
                               read.time_to_reply, read.emotional_shift,
                               read.followup_depth, Some(c.label))]]
    /\ UNCHANGED <<client, db, learning_engine, learning_enabled, pending_signals,
                   signals, clock, issued, messages, nops, last>>

\* capture_explicit_feedback, lines 177-188: the update with the score, the
\* preference of a strong label
FeedbackRecompute ==
    /\ calls.begun /\ calls.feedback.pc = "recompute"
    /\ LET c == calls.feedback
       IN  IF ~UpdateRaises(signals, calls.signal_id, c.failAt # 3)
           THEN /\ signals' = DocUpdate(signals, calls.signal_id,
                                [resonance_score |-> Some(c.new_resonance)])
                /\ calls' = [calls EXCEPT !.steps = Append(@, "recompute"),
                                !.feedback = [c EXCEPT !.pc = "done",
                                    !.ret = ~(c.label \in {"perfect", "unhelpful"}
                                              /\ "_update_user_preferences" \notin EngineMethods)]]
           ELSE /\ signals' = signals
                /\ calls' = [calls EXCEPT !.steps = Append(@, "recompute"),
                                !.feedback = [c EXCEPT !.pc = "done"]]
    /\ UNCHANGED <<client, db, learning_engine, learning_enabled, pending_signals,
                   clock, issued, messages, nops, last>>

\* a signal is started, a reply is captured, before the two calls arrive
StartAlone == ~calls.begun /\ Start

CaptureReplyAlone == ~calls.begun /\ CaptureReply

\* the signal recorder
Next ==
    \/ Tick
    \/ Analyze
    \/ Start
    \/ CaptureReply
    \/ CaptureFeedback

Spec == Init /\ [][Next]_vars

\* the orchestrator and the strategy selector
NextOrch ==
    \/ Tick
    \/ GetStrategy
    \/ Chat

SpecOrch == Init /\ [][NextOrch]_vars

\* the conversation memory
NextMem ==
    \/ Tick
    \/ TickWeek
    \/ StoreConversation
    \/ StoreConversationRecord
    \/ Retrieve

SpecMem == Init /\ [][NextMem]_vars

\* the orchestrator's functions called directly
NextCall ==
    \/ Tick
    \/ Orchestrate
    \/ DebugPrompt

SpecCall == Init /\ [][NextCall]_vars

\* a reply capture and a feedback capture of one signal, step by step
NextCaptures ==
    \/ StartAlone
    \/ CaptureReplyAlone
    \/ BeginCaptures
    \/ ReplyShift
    \/ ReplyUpdate
    \/ FeedbackLabel
    \/ FeedbackRead
    \/ FeedbackRecompute

SpecCaptures == Init /\ [][NextCaptures]_vars

\* the strategy selector
NextSelector ==
    \/ GetStrategy
    \/ CalculateStrategy

SpecSelector == Init /\ [][NextSelector]_vars

-----------------------------------------------------------------------------
(* Properties *)

ResponseFields == {"response", "signal_id", "strategy_used", "confidence", "memory_used"}

\* C1: orchestrate_response never raises and always returns a structured
\* response object carrying response, signal_id, strategy_used, confidence and
\* memory_used, whatever fails and also when the generative client is not
\* configured; it never returns a value of another shape.
C1_StructuredResponse ==
    last.op = "chat" =>
        /\ ~last.raised
        /\ last.ai_response.type = "dict"
        /\ ResponseFields \subseteq DOMAIN last.ai_response.value

\* C2: when the primary generative call of a turn fails, a second generative
\* call (the minimal static prompt) is attempted, and the apology is returned
\* only if that second call fails too: never after a single failure.
C2_SecondCallBeforeApology ==
    (last.op = "chat" /\ last.primaryFailed) =>
        /\ last.genCalls >= 2
        /\ (last.ai_response.type = "dict"
               /\ last.ai_response.value.response = ApologyResponse)
              => last.genCalls = 2

\* calculate_resonance_score over elapsed times, shifts in [-1,1], depths
\* 1..5 and every label or none
ResonanceInUnitInterval ==
    \A t \in {0, 120, 300, 600}, shift \in -10..10, depth \in 1..5,
       fb \in {None} \cup {Some(l) : l \in FeedbackLabels} :
        calculate_resonance_score(Some(t), shift, Some(depth), fb) \in 0..RScale

\* C3: the intensity computed by the analyzer and every resonance score
\* computed and stored by capture_user_reply or capture_explicit_feedback lie
\* in [0,1], for any elapsed time, any emotional shift in [-1,1], any depth
\* 1..5 and any feedback label or none.
C3_ScoresInUnitInterval ==
    /\ last.op = "analyze" => last.signature.intensity \in 0..10
    /\ \A id \in DOMAIN signals :
         signals[id].resonance_score # None
            => Val(signals[id].resonance_score) \in 0..RScale
    /\ (last.op = "capture_reply" /\ last.ret # None) => Val(last.ret) \in 0..RScale
    /\ ResonanceInUnitInterval

\* a reply has stored the highest score, and a text has reached the cap
C3_Witness ==
    /\ last.op = "capture_reply"
    /\ last.ret = Some(RScale)
    /\ signals[last.signal_id].resonance_score = Some(RScale)
    /\ \E t \in Texts : intensity_markers(Lower(t)) > 10 /\ Signatures[t].intensity = 10

\* C4: any two distinct calls of capture_interaction_start, two calls for the
\* same user at the same clock reading included, return distinct signal ids.
C4_DistinctSignalIds ==
    \A id \in DOMAIN issued : issued[id] = 1

\* C5: applying capture_explicit_feedback twice in a row with the same label
\* to the same signal leaves the same stored resonance_score and label as
\* applying it once.
C5_SameLabelTwice ==
    (last.op = "capture_feedback" /\ last.storeOk /\ last.pre # None) =>
        \A details \in FeedbackDetails :
            LET id == last.signal_id
                again == capture_explicit_feedback(signals, learning_enabled, id,
                             last.label, details, 0)
            IN  /\ again.signals[id].resonance_score = signals[id].resonance_score
                /\ again.signals[id].user_feedback = signals[id].user_feedback
                /\ again.ret = last.ret

\* a feedback has changed the score a reply had stored
C5_Witness ==
    /\ last.op = "capture_feedback"
    /\ last.storeOk
    /\ last.pre # None
    /\ Val(last.pre).resonance_score # None
    /\ signals[last.signal_id].resonance_score # Val(last.pre).resonance_score
    /\ signals[last.signal_id].user_feedback = Some(last.label)

\* the document of the signal after label B is applied to the store coll
AfterFeedback(coll, id, label, details) ==
    capture_explicit_feedback(coll, learning_enabled, id, label, details, 0).signals[id]

\* C6 as stated: after label A and then a different label B the signal is
\* exactly in the state that B alone produces.
C6_LastLabelWinsExactly ==
    (last.op = "capture_feedback" /\ last.storeOk /\ last.pre # None) =>
        \A B \in FeedbackLabels \ {last.label}, details \in FeedbackDetails :
            LET id == last.signal_id
                before == DocSet(signals, id, Val(last.pre))
            IN  AfterFeedback(signals, id, B, details)
                    = AfterFeedback(before, id, B, details)

\* C6, amended: after label A and then a different label B the signal holds
\* label B and the resonance_score that B alone produces, with no trace of
\* A's multiplier; every field equals that of B alone except feedback_details,
\* which keeps A's details when B carries none.
C6_LastLabelWins ==
    (last.op = "capture_feedback" /\ last.storeOk /\ last.pre # None) =>
        \A B \in FeedbackLabels \ {last.label}, details \in FeedbackDetails :
            LET id == last.signal_id
                before == DocSet(signals, id, Val(last.pre))
                both == AfterFeedback(signals, id, B, details)
                alone == AfterFeedback(before, id, B, details)
            IN  /\ both.user_feedback = Some(B)
                /\ both.resonance_score = alone.resonance_score
                /\ \A k \in (DOMAIN both) \ {"feedback_details"} :
                     k \in DOMAIN alone /\ both[k] = alone[k]
                /\ (details # None \/ last.details = None) => both = alone
                /\ (details = None /\ last.details # None)
                      => both.feedback_details = last.details

\* label A, with details, has been applied to a signal that has a reply and
\* A has changed its score
C6_Witness ==
    /\ last.op = "capture_feedback"
    /\ last.storeOk
    /\ last.pre # None
    /\ last.details # None
    /\ Val(last.pre).resonance_score # None
    /\ signals[last.signal_id].resonance_score # Val(last.pre).resonance_score
    /\ "feedback_details" \notin DOMAIN Val(last.pre)

\* C7: capture_user_reply and capture_explicit_feedback called with a signal
\* id that is not in the store return the failure indicator (None, False)
\* and create or modify no signal document.
C7_UnknownSignalId ==
    [][(/\ nops' = nops + 1
        /\ last'.op \in {"capture_reply", "capture_feedback"}
        /\ ~Exists(signals, last'.signal_id))
       => (/\ signals' = signals
           /\ last'.op = "capture_reply" => last'.ret = None
           /\ last'.op = "capture_feedback" => last'.ret = FALSE)]_vars

\* an enabled engine whose store holds a signal was given an id that is not
\* in the store
C7_Witness ==
    /\ learning_enabled
    /\ signals # <<>>
    /\ last.op \in {"capture_reply", "capture_feedback"}
    /\ last.pre = None
    /\ ~Exists(signals, last.signal_id)

\* C8: capture_interaction_start always returns a signal id, and whenever
\* the signal was not written to the store (the write failed or no store is
\* available) the signal is held in pending_signals.
C8_UnwrittenSignalIsPending ==
    last.op = "start" =>
        /\ last.ret \in DOMAIN issued
        /\ ~(learning_enabled /\ last.setOk)
              => \E i \in 1..Len(pending_signals) :
                    pending_signals[i].message_id = last.ret

\* C9: get_adaptive_strategy returns the static default strategy, approach
\* "gentle_grounding" with confidence 0.7, whenever the user has no signal
\* history and whenever history, store or preferences are unavailable.
C9_DefaultStrategy ==
    (last.op = "get_adaptive_strategy" /\ _get_recent_signals(signals, last.user_id) = <<>>)
        => /\ "approach" \in DOMAIN last.ret
           /\ last.ret.approach = "gentle_grounding"
           /\ last.ret.confidence = 7

\* the recall texts that carry no memory
NoMemoryRecalls ==
    {MemoryInitializing, MemoryUnavailable, MemoryOffline, MemoryError, NoRelevantMemories}

\* C10: when retrieval yields no memory for the turn, the object returned
\* by orchestrate_response has memory_used = false and the signal started
\* for the turn records memory_recalled = false.
C10_NoMemoryNotUsed ==
    (last.op = "chat" /\ last.memory_recall \in NoMemoryRecalls) =>
        /\ last.ai_response.type = "dict" => ~last.ai_response.value.memory_used
        /\ (last.started # None /\ Exists(signals, Val(last.started)))
              => ~signals[Val(last.started)].memory_recalled
        /\ \A i \in 1..Len(pending_signals) :
              (last.started = Some(pending_signals[i].message_id))
                 => ~pending_signals[i].memory_recalled

T_boss == <<"b", "o", "s", "s">>

\* C11: after a turn of user U whose message references "my boss" has
\* completed, a retrieve for U on a second message referencing "my boss"
\* returns the first turn's memory with relevance score > 0; so does the
\* retrieval of U's next turn.
C11_SecondTurnRecallsFirst ==
    /\ (last.op = "chat" /\ last.stored /\ last.genCalls = 1 /\ ~last.primaryFailed
          /\ Contains(Lower(last.user_message), T_boss)) =>
          LET r == retrieve_relevant_memories(messages[last.user_id], M_boss_again, db,
                       RetrieveLimit, clock, TRUE)
          IN  \E i \in 1..Len(r.memories) :
                 /\ r.memories[i].memory.user_message = last.user_message
                 /\ r.memories[i].score > 0
    /\ (last.op = "chat" /\ db /\ Contains(Lower(last.user_message), T_boss)
          /\ Len(messages[last.user_id]) > (IF last.stored THEN 1 ELSE 0))
          => last.memory_recall = RelevantMemories

\* C12: when the access to the store fails, retrieve_relevant_memories does
\* not raise and yields no memories together with a marker that differs from
\* the text of a successful retrieval that matched nothing.
C12_StoreErrorIsMarked ==
    (last.op = "retrieve" /\ db /\ ~last.readOk) =>
        /\ last.memories = <<>>
        /\ last.recall # NoRelevantMemories

\* position of a returned memory among the user's documents, newest first
FetchedPosition(user_id, memory) ==
    CHOOSE i \in 1..Len(messages[user_id]) : messages[user_id][i] = memory

\* C13: for fixed stored memories, message and clock, a second retrieve
\* returns the same memories in the same order as the first; the result is
\* ordered by score, and memories of equal score keep the order in which
\* they were fetched.
C13_RetrieveDeterministic ==
    (last.op = "retrieve") =>
        /\ last.now = clock =>
              retrieve_relevant_memories(messages[last.user_id], last.current_input, db,
                  RetrieveLimit, clock, last.readOk).memories = last.memories
        /\ \A i, j \in 1..Len(last.memories) :
              i < j =>
                 /\ last.memories[i].score >= last.memories[j].score
                 /\ last.memories[i].score = last.memories[j].score =>
                       FetchedPosition(last.user_id, last.memories[i].memory)
                          < FetchedPosition(last.user_id, last.memories[j].memory)

C13_Witness ==
    /\ last.op = "retrieve"
    /\ Len(last.memories) = 3
    /\ last.memories[1].score > last.memories[2].score
    /\ last.memories[2].score = last.memories[3].score

\* C14: get_debug_prompt never invokes the generative text service, on
\* any of its paths, the failure paths included.
C14_DebugMakesNoGenerativeCall ==
    (last.op = "debug_prompt") =>
        /\ last.genCalls = 0
        /\ "generate" \notin Range(last.steps)

C14_Witness ==
    /\ last.op = "debug_prompt"
    /\ client
    /\ ~last.env.memImportOk
    /\ last.text.header = "=== ADAPTIVE PROMPT ==="

\* C15: for the same user, message, ai_name and store state, and the same
\* failures of memory retrieval and emotion analysis, the text returned by
\* get_debug_prompt is exactly the prompt orchestrate_response sends to the
\* generative service; the header line get_debug_prompt puts before the
\* prompt is left out of the comparison.
C15_DebugTextIsPromptSent ==
    (last.op = "debug_prompt" /\ last.now = clock /\ client) =>
        LET r == orchestrate_response(signals, pending_signals,
                     Retrieved(last.user_id, last.user_input, last.env.readOk),
                     learning_engine, learning_enabled, client, db, last.user_id,
                     last.user_input, CallParsedContext[last.user_input], "Cael",
                     clock, last.env)
        IN  r.prompt = Some(last.text.prompt)

\* C16: orchestrate_response called with an empty message or without a user
\* id returns a validation failure: it does not raise, starts no signal and
\* makes no generative call.
C16_InvalidInputRejected ==
    (last.op = "orchestrate" /\ (last.user_input = <<>> \/ last.user_id = "")) =>
        /\ ~last.raised
        /\ last.started = None
        /\ last.genCalls = 0
        /\ "start" \notin Range(last.steps)

T_i_realize == <<"i", " ", "r", "e", "a", "l", "i", "z", "e">>

\* C17: capture_user_reply with 300 seconds elapsed and a reply containing
\* "I realize" computes a timing score of about 1.0 (at least 0.9) and a
\* depth score of at least 0.6, and returns a resonance score of at least 0.5.
C17_ReplyAfterFiveMinutes ==
    (last.op = "capture_reply" /\ last.t = 300 /\ last.ret # None
        /\ Contains(Lower(last.reply), T_i_realize)) =>
        /\ timing_score(last.t) * 10 >= 300 * 9
        /\ depth_score(_analyze_message_depth(last.reply)) * 10 >= 5 * 6
        /\ Val(last.ret) * 2 >= RScale

\* the intensity the analyzer computes for a text
IntensityOf(text) == analyze_emotional_signature(text).intensity

\* C18 as stated: for any message, adding one more "!" character, at any
\* place of the message, never decreases the intensity computed by the
\* analyzer; the boost of the "!" characters is at most 0.2 and the total at
\* most 1.0.
C18_AddingBangAnywhere ==
    (last.op = "analyze") =>
        /\ \A p \in 1..(Len(last.text) + 1) :
              IntensityOf(InsertAt(last.text, p, "!")) >= last.signature.intensity
        /\ exclamation_boost(Lower(last.text)) <= 2
        /\ last.signature.intensity <= 10

\* C18, amended: appending one more "!" to the end of a message never
\* decreases the intensity computed by the analyzer; the boost of the "!"
\* characters is at most 0.2 and the total at most 1.0.
C18_AppendingBang ==
    (last.op = "analyze") =>
        /\ IntensityOf(Append(last.text, "!")) >= last.signature.intensity
        /\ exclamation_boost(Lower(last.text)) <= 2
        /\ exclamation_boost(Lower(Append(last.text, "!"))) <= 2
        /\ last.signature.intensity <= 10

\* a text with three "!" whose boosts sum to more than the cap
C18_Witness ==
    /\ last.op = "analyze"
    /\ CountChar(last.text, "!") >= 3
    /\ exclamation_boost(Lower(last.text)) = 2
    /\ intensity_markers(Lower(last.text)) > 10
    /\ last.signature.intensity = 10
    /\ IntensityOf(Append(last.text, "!")) = 10

\* place of a step among the steps of a turn, 0 when the turn did not take it
StepAt(steps, step) ==
    IF step \in Range(steps) THEN CHOOSE i \in 1..Len(steps) : steps[i] = step ELSE 0

\* the order of the steps of one turn
StepsInOrder(turn) ==
    LET at(step) == StepAt(turn.steps, step)
        times(step) == Cardinality({i \in 1..Len(turn.steps) : turn.steps[i] = step})
    IN  /\ at("start") > 0 =>
              /\ at("retrieve") > 0 /\ at("retrieve") < at("start")
              /\ at("analyze") > 0 /\ at("analyze") < at("start")
        /\ at("select") > 0 => (at("start") > 0 /\ at("start") < at("select"))
        /\ at("generate") > 0 => (at("prompt") > 0 /\ at("prompt") < at("generate"))
        /\ times("complete") <= 1
        /\ at("complete") > 0 =>
              /\ at("generate") > 0 /\ at("generate") < at("complete")
              /\ turn.genCalls = 1 /\ turn.env.genOk
        /\ (turn.genCalls = 0 \/ ~turn.env.genOk) => at("complete") = 0

\* the document carries what complete_interaction writes
Completed(doc) == "response_timestamp" \in DOMAIN doc

\* C19: within every turn of orchestrate_response the signal is started
\* only after memory retrieval and emotion analysis have finished, strategy
\* selection follows the start, the generative call follows the assembly of
\* the prompt, and complete_interaction is called at most once and only
\* after the generative call succeeded: when that call fails or is not made,
\* no signal is completed.
C19_StepsOfATurn ==
    [][(last'.op = "orchestrate" /\ nops' = nops + 1) =>
          /\ StepsInOrder(last')
          /\ \A id \in DOMAIN signals' :
                (/\ Completed(signals'[id])
                 /\ ~(id \in DOMAIN signals /\ signals[id] = signals'[id]))
                   => /\ StepAt(last'.steps, "complete") > 0
                      /\ last'.started = Some(id)]_vars

C19_Witness ==
    /\ last.op = "orchestrate"
    /\ last.genCalls = 1
    /\ StepAt(last.steps, "complete") > 0
    /\ last.started # None
    /\ Exists(signals, Val(last.started))
    /\ Completed(signals[Val(last.started)])

\* C20: capture_explicit_feedback with a label on a signal whose stored
\* resonance is r stores clamp(r * m(label), 0, 1), with m = 1.2, 1.1, 0.7,
\* 0.3 for perfect, helpful, not_quite, unhelpful; checked for the first
\* feedback after capture_user_reply has stored r, a score computed from a
\* non-zero emotional shift included.
C20_FeedbackScalesStored ==
    (/\ last.op = "capture_feedback" /\ last.storeOk /\ last.pre # None
     /\ Val(last.pre).resonance_score # None
     /\ Val(last.pre).user_feedback = None) =>
        LET r == Val(Val(last.pre).resonance_score)
            after == signals[last.signal_id].resonance_score
        IN  /\ after # None
            /\ Val(after) * 10
                  = Min(RScale * 10, Max(0, r * feedback_multiplier(Some(last.label))))

\* both calls have returned
CapturesDone ==
    calls.begun /\ calls.reply.pc = "done" /\ calls.feedback.pc = "done"

\* the collection after capture_user_reply and then capture_explicit_feedback,
\* each run alone on the collection the calls found, with the same arguments
\* and the same store outcomes
ReplyThenFeedback ==
    LET r == calls.reply
        f == calls.feedback
        first == capture_user_reply(calls.pre, learning_enabled, calls.signal_id,
                     r.a.reply, r.a.ea, r.a.t, r.getOk, r.updOk)
    IN  capture_explicit_feedback(first.signals, learning_enabled, calls.signal_id,
            f.label, f.details, f.failAt).signals

\* the same with capture_explicit_feedback first
FeedbackThenReply ==
    LET r == calls.reply
        f == calls.feedback
        first == capture_explicit_feedback(calls.pre, learning_enabled,
                     calls.signal_id, f.label, f.details, f.failAt)
    IN  capture_user_reply(first.signals, learning_enabled, calls.signal_id,
            r.a.reply, r.a.ea, r.a.t, r.getOk, r.updOk).signals

\* the signal had no reply when the calls arrived
NoReplyBefore ==
    /\ Exists(calls.pre, calls.signal_id)
    /\ calls.pre[calls.signal_id].time_to_reply = None

\* C21 as stated: when capture_user_reply and capture_explicit_feedback run
\* concurrently on one signal, their store reads and writes interleaved in
\* any order, the final collection is the one that reply then feedback, or
\* feedback then reply, would produce.
C21_CapturesSerializable ==
    CapturesDone => signals \in {ReplyThenFeedback, FeedbackThenReply}

\* C21 amended: the same for a signal that had no reply when the two calls
\* arrived.  (On a signal with an earlier reply the feedback call may read the
\* earlier reply's fields and store a score computed from them after the new
\* reply was written: each field holds the value written last.)
C21_CapturesSerializableOnFirstReply ==
    (CapturesDone /\ NoReplyBefore)
        => signals \in {ReplyThenFeedback, FeedbackThenReply}

\* the steps interleave: label, shift, update, read, recompute; both wrote
C21_Witness ==
    /\ CapturesDone /\ NoReplyBefore
    /\ calls.steps = <<"label", "shift", "update", "read", "recompute">>
    /\ calls.reply.ret # None
    /\ signals[calls.signal_id].resonance_score = Some(calls.feedback.new_resonance)
    /\ signals[calls.signal_id].resonance_score # calls.reply.ret

\* the resonance_score of signal id after capture_user_reply with arguments a
\* and then capture_explicit_feedback with the label, the store answering
ScoreReplyFirst(id, a, label) ==
    LET first == capture_user_reply(signals, learning_enabled, id, a.reply, a.ea,
                     a.t, TRUE, TRUE)
    IN  capture_explicit_feedback(first.signals, learning_enabled, id, label, None,
            0).signals[id].resonance_score

\* the same with capture_explicit_feedback first
ScoreFeedbackFirst(id, a, label) ==
    LET first == capture_explicit_feedback(signals, learning_enabled, id, label,
                     None, 0)
    IN  capture_user_reply(first.signals, learning_enabled, id, a.reply, a.ea,
            a.t, TRUE, TRUE).signals[id].resonance_score

\* C22: for a stored signal that receives a user reply and explicit feedback,
\* the resonance_score stored in the end is the same whichever of
\* capture_user_reply and capture_explicit_feedback is applied first (the
\* score stored with a label always includes the label's multiplier).
C22_SameScoreEitherOrder ==
    \A id \in DOMAIN signals, a \in ReplyArgs, label \in FeedbackLabels :
        ScoreReplyFirst(id, a, label) = ScoreFeedbackFirst(id, a, label)

\* C23: capture_explicit_feedback returns True exactly when the label and the
\* recomputed resonance were written: on a stored signal, the store answering
\* every request, it returns True for each of the four labels, and whenever
\* it returns False the signal document is as it was before the call.
C23_FeedbackTrueIffWritten ==
    last.op = "capture_feedback" =>
        /\ (last.pre # None /\ last.storeOk) => last.ret = TRUE
        /\ last.ret = FALSE => DocOf(signals, last.signal_id) = last.pre

\* the signal was stored by a start and completed by nobody, and holds no
\* reply
NeverCompleted(doc) ==
    /\ "response_timestamp" \notin DOMAIN doc
    /\ doc.time_to_reply = None

\* C24: on a stored signal that was never completed and holds no reply, the
\* store answering every request, capture_user_reply returns and stores a
\* resonance score in [0,1], and capture_explicit_feedback stores the label
\* and the resonance computed from the default field values (time_to_reply
\* 60, emotional_shift 0, followup_depth 3).
C24_CapturesOnNeverCompleted ==
    (/\ last.op \in {"capture_reply", "capture_feedback"}
     /\ last.pre # None /\ last.storeOk
     /\ NeverCompleted(Val(last.pre))) =>
        LET doc == signals[last.signal_id]
        IN  IF last.op = "capture_reply"
            THEN /\ last.ret # None
                 /\ doc.resonance_score = last.ret
                 /\ Val(last.ret) >= 0 /\ Val(last.ret) <= RScale
            ELSE /\ doc.user_feedback = Some(last.label)
                 /\ doc.resonance_score
                        = Some(calculate_resonance_score(Some(60), 0, Some(3),
                                   Some(last.label)))

\* the sum of the resonance scores of the signals, a signal without a score
\* counting 0.5 and every score its own value
RECURSIVE TotalResonance(_)
TotalResonance(ss) ==
    IF ss = <<>> THEN 0
    ELSE (IF Head(ss).resonance_score = None THEN RScale \div 2
          ELSE Val(Head(ss).resonance_score)) + TotalResonance(Tail(ss))

\* the strategy returned for no history and no preference
DefaultStrategy ==
    _calculate_adaptive_strategy(<<>>, <<>>, <<>>, [interaction_context |-> "chat"])

\* a preference that overrides: a tone preference of confidence above 0.8
Overrides(preferences) ==
    \E i \in 1..Len(preferences) :
        preferences[i].preference_type = "tone" /\ preferences[i].confidence > 8

\* the mean of the signals' resonance is above 0.8, below 0.4
MeanAbove8(ss) == TotalResonance(ss) * 10 > 8 * Len(ss) * RScale
MeanBelow4(ss) == TotalResonance(ss) * 10 < 4 * Len(ss) * RScale

ResonanceAboveZero ==
    \A t \in {0, 120, 300, 600}, shift \in -10..10, depth \in 1..5,
       fb \in {None} \cup {Some(l) : l \in FeedbackLabels} :
        calculate_resonance_score(Some(t), shift, Some(depth), fb) > 0

SelectionReadsRecordOf(signal_id, user_id) ==
    LET recent_signals == _get_recent_signals(signals, user_id)
        preferences == _get_user_preferences(user_id)
    IN  \/ \E i \in 1..Len(recent_signals) : recent_signals[i].message_id = signal_id
        \/ \E i \in 1..Len(preferences) : preferences[i].signal_id = signal_id

\* C26: after capture_user_reply has computed and stored a resonance above
\* 0.9 or below 0.3, a reinforce or flag record for the signal is stored
\* where a later strategy selection reads it; for a resonance in [0.3, 0.9]
\* there is no such record.
C26_AdaptationRecordStored ==
    (last.op = "capture_reply" /\ last.ret # None) =>
        (adaptation_trigger(Val(last.ret)) \in {"reinforce", "flag"}
            <=> SelectionReadsRecordOf(last.signal_id, signals[last.signal_id].user_id))

\* the memories fetched for the user of the last retrieve
FetchedMemories == get_user_memories(messages[last.user_id], FetchLimit, TRUE)

\* find_relevant_memories on them with the input of the last retrieve, limit k
Found(k) == find_relevant_memories(FetchedMemories, last.current_input, k, clock)

\* the score of a fetched memory for the input of the last retrieve
ScoreOf(memory) == calculate_relevance_score(memory, Lower(last.current_input), clock)

\* C27: for the memories fetched and any limit k >= 0, find_relevant_memories
\* returns at most k memories, each of relevance score above 0, in the order
\* of non-increasing score, and no memory left out has a strictly higher
\* score than a returned one.
C27_TopKByScore ==
    (last.op = "retrieve") =>
        \A k \in 0..MaxStored :
            LET found == Found(k)
            IN  /\ Len(found) <= k
                /\ \A i \in 1..Len(found) :
                      /\ found[i].score > 0
                      /\ found[i].score = ScoreOf(found[i].memory)
                      /\ \E j \in 1..Len(FetchedMemories) :
                            FetchedMemories[j] = found[i].memory
                /\ \A i, j \in 1..Len(found) : i < j => found[i].score >= found[j].score
                /\ \A j \in 1..Len(FetchedMemories) :
                      (\A i \in 1..Len(found) : found[i].memory # FetchedMemories[j])
                         => \A i \in 1..Len(found) :
                               ScoreOf(FetchedMemories[j]) <= found[i].score
                /\ Len(found) < k
                      => \A j \in 1..Len(FetchedMemories) :
                            ScoreOf(FetchedMemories[j]) > 0
                               => \E i \in 1..Len(found) :
                                     found[i].memory = FetchedMemories[j]

\* three memories fetched, one of score 0 and two of different positive
\* scores: with limit 1 the best is returned and the other two are left out
C27_Witness ==
    /\ last.op = "retrieve"
    /\ Len(FetchedMemories) = 3
    /\ \E j \in 1..3 : ScoreOf(FetchedMemories[j]) = 0
    /\ Len(Found(3)) = 2
    /\ Found(3)[1].score > Found(3)[2].score
    /\ Found(1) = <<Found(3)[1]>>

\* the keyword-hit counts of the tone categories in the lowercased text
ToneCounts(text) == [k \in 1..Len(ToneNames) |-> ToneScore(Lower(text), k)]

\* the categories of the highest count
TopTones(text) ==
    {k \in 1..Len(ToneNames) :
        \A j \in 1..Len(ToneNames) : ToneCounts(text)[j] <= ToneCounts(text)[k]}

\* C28: the primary tone of the analyzer is the tone category with the
\* strictly highest keyword-hit count; when two or more categories tie for
\* the highest count, or every count is zero, it is "neutral".
C28_PrimaryToneStrictlyHighest ==
    (last.op = "analyze") =>
        LET top == TopTones(last.text)
        IN  IF Cardinality(top) = 1
            THEN \A k \in top :
                    last.signature.primary_tone
                        = (IF ToneCounts(last.text)[k] = 0 THEN "neutral"
                           ELSE ToneNames[k])
            ELSE last.signature.primary_tone = "neutral"

\* the intensity of the formula, in tenths: the markers other than the
\* uppercase run are looked for in the lowercased message
FormulaIntensity(text) ==
    Min(10, 3 + (IF AnyIn(IntensifierWords, Lower(text)) THEN 3 ELSE 0)
              + (IF HasCapsRun(text) THEN 2 ELSE 0)
              + Min(2, CountChar(text, "!"))
              + (IF HasRepetition(Lower(text)) THEN 1 ELSE 0)
              + (IF AnyIn(SwearWords, Lower(text)) THEN 2 ELSE 0))

\* C29: the intensity analyze_emotional_signature returns for a message is
\* min(1.0, 0.3 + 0.3 [an intensifier word is present] + 0.2 [the message
\* contains a run of two or more uppercase letters] + min(0.2, 0.1 per "!")
\* + 0.1 [a character is repeated three or more times] + 0.2 [profanity is
\* present]); a message with an uppercase run scores 0.2 more than the same
\* message in lowercase when the cap is not reached.
C29_IntensityFormula ==
    (last.op = "analyze") =>
        /\ last.signature.intensity = FormulaIntensity(last.text)
        /\ (HasCapsRun(last.text) /\ FormulaIntensity(last.text) < 10)
              => last.signature.intensity = IntensityOf(Lower(last.text)) + 2

\* the prompt build_adaptive_poa_prompt assembles with the strategy
PromptWith(strategy) ==
    build_adaptive_poa_prompt(M_boss, "", <<>>, "Cael", Some(strategy))

\* C30: every strategy the selector returns, by _calculate_adaptive_strategy
\* (the default, the high-resonance and the low-resonance case) and by
\* get_adaptive_strategy (disabled or failing), names an approach for which
\* build_adaptive_poa_prompt has an instruction: the guidance section of the
\* prompt is never None (printed "None") or empty.
C30_StrategyHasGuidance ==
    (last.op \in {"calculate_adaptive_strategy", "get_adaptive_strategy"}) =>
        LET prompt == PromptWith(last.ret)
        IN  /\ prompt.template = "adaptive"
            /\ prompt.style_instruction # None
            /\ Get(last.ret, "approach", "gentle_grounding") \in DOMAIN approach_styles

====
